---- MODULE Spec2Model ----
(***************************************************************************)
(* Attempt lifecycle, answer store, grading and paper generation of the    *)
(* online examination backend.                                             *)
(*                                                                         *)
(* The relational store is modelled as its tables: exams, exam_participants*)
(* exam_attempts, answers, exam_questions, pre_generated_papers and        *)
(* exam_attempt_papers.  Rows                                              *)
(* of a table other than exams are kept in a sequence; the autoincrement   *)
(* primary key of an attempt or answer is its index.                       *)
(* Time is a bounded integer clock (one unit = one minute).                *)
(*                                                                         *)
(* Spec          the endpoints of the attempt lifecycle, each handler run   *)
(*               to completion, and the clock.                             *)
(* AnswerSpec    the endpoints a student uses while taking the exam,       *)
(*               answers included.                                         *)
(* CrudSpec      Spec plus direct calls of the crud methods, update_status *)
(*               included, on arguments no endpoint passes.                *)
(* StartRaceSpec start requests split at their storage awaits, interleaved.*)
(* HbSubmitSpec  a submit request split at its storage awaits, interleaved *)
(*               with heartbeats.                                          *)
(* GradeSpec     taking the exam, manual grading and the final score.      *)
(* OverwriteSpec saving an answer again after it was graded.               *)
(* PaperSpec     updates of a random_unified or random_individual exam.    *)
(* ManualSpec    updates of a manual exam.                                 *)
(* PublishRaceSpec  publish requests of a random_unified exam split at the *)
(*               load, the statements and the commit, interleaved.         *)
(* RosterSpec    status and participant updates of a random_individual     *)
(*               exam, with students starting and reading their paper.     *)
(* LockSpec      status and question-list updates of a manual exam with    *)
(*               students starting.                                        *)
(* WindowSpec    creation of exams and updates of their time window.       *)
(* StatsSpec     GradeSpec's grading on three rosters, with calls of       *)
(*               get_exam_statistics_admin.                                *)
(* SaveRaceSpec  save-answer requests split at the await between the       *)
(*               attempt check and the upsert, interleaved with a submit.  *)
(* GradeRaceSpec a manual grade split at the await between db.get and the  *)
(*               commit, interleaved with saves.                           *)
(*                                                                         *)
(* The endpoints call the crud methods through the class name              *)
(* (CRUDExamAttempt.get(db=...)); the model takes these as calls of the    *)
(* methods on the module's crud instance.                                  *)
(***************************************************************************)
EXTENDS Integers, Sequences, FiniteSets, TLC

\* ------------------------------------------------------------------ bounds
MaxTime == 3
NumReq == 2
MaxAnswers == 2

\* None / SQL NULL of a nullable column.
NULL == -1

\* ---------------------------------------------------------------- fixtures
Users == {1, 2}
ExamIds == {1}
\* an exam id with no row, for the 404 path
RequestExamIds == ExamIds \cup {2}
Questions == {1, 2}
\* the ids of the rows of table questions
QuestionIds == {1, 2, 3}
AnswerValues == {"A", "B"}
Groups == {1}

\* ------------------------------------------------------------------- enums
ExamStatusEnum == {"draft", "published", "ongoing", "finished", "archived"}

ExamAttemptStatusEnum ==
    {"pending", "in_progress", "submitted", "grading", "graded", "aborted"}

VARIABLES
    now,            \* datetime.now(timezone.utc)
    exams,          \* table exams: id -> row
    participants,   \* table exam_participants: set of rows
    user_groups,    \* association table user_groups: user -> set of group ids
    attempts,       \* table exam_attempts: sequence of rows, id = index
    answers,        \* table answers: sequence of rows, id = index
    exam_questions, \* table exam_questions: the rows, in insertion order
    pre_generated_papers, \* table pre_generated_papers: the rows, likewise
    exam_attempt_papers,  \* table exam_attempt_papers: the rows, likewise
    resp,           \* the outcome of the handler that ran in the last step
    req             \* the in-flight requests of the interleaved specifications

vars == <<now, exams, participants, user_groups, attempts, answers,
          exam_questions, pre_generated_papers, exam_attempt_papers, resp, req>>

\* the paper tables
papers == <<exam_questions, pre_generated_papers, exam_attempt_papers>>

db == <<exams, participants, user_groups, attempts, answers, papers>>

\* ------------------------------------------------------------ declared keys
\* exam_attempts declares no unique key on (exam_id, user_id): the
\* UniqueConstraint is commented out in the model class.
AttemptUniqueExamUser == FALSE

\* answers declares no unique key on (attempt_id, question_id) either.
AnswerUniqueAttemptQuestion == FALSE

\* ------------------------------------------------------------------- rows
ExamAttempt(e, u) ==
    [exam_id |-> e, user_id |-> u, status |-> "pending",
     start_time |-> NULL, submit_time |-> NULL, calculated_end_time |-> NULL,
     final_score |-> NULL, last_heartbeat |-> NULL]

Answer(a, q, v) ==
    [attempt_id |-> a, question_id |-> q, user_answer |-> v,
     score |-> NULL, is_correct |-> NULL, grader_id |-> NULL,
     grading_comments |-> NULL, graded_at |-> NULL]

NoAttempt == 0

\* op: the handler; user, exam, attempt: its caller and what it addressed;
\* result: "ok" or the error it raised; ret: the id of the row it returned.
Response(op, u, e, a, result, ret) ==
    [op |-> op, user |-> u, exam |-> e, attempt |-> a, result |-> result,
     ret |-> ret]

\* ------------------------------------------------------------ storage reads
\* db.get / select ... where id = a
get(atts, a) == IF a \in DOMAIN atts THEN a ELSE NoAttempt

\* the rows select ... where user_id = u and exam_id = e matches
get_by_user_exam(atts, u, e) ==
    {i \in DOMAIN atts : atts[i].user_id = u /\ atts[i].exam_id = e}

\* result.scalars().first() of a select with no ORDER BY: None on an empty
\* result, otherwise whichever matching row the store returns first.
first(S) == IF S = {} THEN {NoAttempt} ELSE S

\* The UPDATE that commit() flushes for a loaded object: only the attributes
\* whose value differs from the loaded one are written to the row.
Flush(row, loaded, obj) ==
    [f \in DOMAIN row |-> IF obj[f] # loaded[f] THEN obj[f] ELSE row[f]]

\* ------------------------------------------------------ CRUDExamAttempt
InsertAttempt(atts, u, e) ==
    IF AttemptUniqueExamUser /\ get_by_user_exam(atts, u, e) # {}
    THEN [err |-> "integrity_error", attempts |-> atts, ret |-> NoAttempt]
    ELSE [err |-> "none", attempts |-> Append(atts, ExamAttempt(e, u)),
          ret |-> Len(atts) + 1]

\* statuses create_or_get_pending refuses to hand out
CompletedStatuses == {"submitted", "graded", "aborted"}

\* create_or_get_pending without the lookup: every call inserts
create_or_get_pending_insert_always(atts, found, u, e) ==
    InsertAttempt(atts, u, e)

\* found is the row get_by_user_exam(...).first() returned (NoAttempt: none)
create_or_get_pending(atts, found, u, e) ==
    IF found = NoAttempt
    THEN InsertAttempt(atts, u, e)
    ELSE IF atts[found].status \in CompletedStatuses
         THEN [err |-> "already_completed", attempts |-> atts, ret |-> NoAttempt]
         ELSE [err |-> "none", attempts |-> atts, ret |-> found]

\* start_attempt without the early return for an attempt already in_progress
start_attempt_restarts(attempt, duration_minutes, t) ==
    IF attempt.status \notin {"pending", "in_progress"}
    THEN [err |-> "cannot_start", commit |-> FALSE, attempt |-> attempt]
    ELSE [err |-> "none", commit |-> TRUE,
          attempt |-> [attempt EXCEPT
                           !.start_time = t,
                           !.calculated_end_time = t + duration_minutes,
                           !.status = "in_progress",
                           !.last_heartbeat = t]]

\* attempt is the loaded object; the result is the object after the call and
\* whether the method committed it.
start_attempt(attempt, duration_minutes, t) ==
    IF attempt.status = "in_progress"
    THEN [err |-> "none", commit |-> FALSE, attempt |-> attempt]
    ELSE IF attempt.status # "pending"
         THEN [err |-> "cannot_start", commit |-> FALSE, attempt |-> attempt]
         ELSE [err |-> "none", commit |-> TRUE,
               attempt |-> [attempt EXCEPT
                                !.start_time = t,
                                !.calculated_end_time = t + duration_minutes,
                                !.status = "in_progress",
                                !.last_heartbeat = t]]

submit_attempt(attempt, t) ==
    IF attempt.status # "in_progress"
    THEN [err |-> "cannot_submit", commit |-> FALSE, attempt |-> attempt]
    ELSE [err |-> "none", commit |-> TRUE,
          attempt |-> [attempt EXCEPT !.submit_time = t, !.status = "submitted"]]

\* WHERE id = attempt_id, without the status condition
HeartbeatWhere_any_status(atts, attempt_id) ==
    {i \in DOMAIN atts : i = attempt_id}

\* WHERE id = attempt_id AND status = 'in_progress'
HeartbeatWhere(atts, attempt_id) ==
    {i \in DOMAIN atts : i = attempt_id /\ atts[i].status = "in_progress"}

\* a heartbeat that loads the attempt, tests the status while the row is
\* in_progress or already submitted, and writes the object back as active
update_heartbeat_writes_back(atts, attempt_id, t) ==
    LET rows == {i \in DOMAIN atts : i = attempt_id
                    /\ atts[i].status \in {"in_progress", "submitted"}}
    IN
    [attempts |-> [i \in DOMAIN atts |->
                      IF i \in rows
                      THEN [atts[i] EXCEPT !.last_heartbeat = t,
                                           !.status = "in_progress"]
                      ELSE atts[i]],
     ret |-> rows # {}]

\* one UPDATE ... WHERE ... statement; ret is rowcount > 0
update_heartbeat(atts, attempt_id, t) ==
    LET rows == HeartbeatWhere(atts, attempt_id) IN
    [attempts |-> [i \in DOMAIN atts |->
                      IF i \in rows THEN [atts[i] EXCEPT !.last_heartbeat = t]
                      ELSE atts[i]],
     ret |-> rows # {}]

update_status(atts, attempt_id, new_status) ==
    IF get(atts, attempt_id) = NoAttempt
    THEN [attempts |-> atts, ret |-> NoAttempt]
    ELSE [attempts |-> [atts EXCEPT ![attempt_id].status = new_status],
          ret |-> attempt_id]

\* ----------------------------------------------------------- CRUDAnswer
\* the rows select ... filter_by(attempt_id, question_id) matches
AnswerRows(ans, attempt_id, question_id) ==
    {i \in DOMAIN ans : ans[i].attempt_id = attempt_id
                        /\ ans[i].question_id = question_id}

\* INSERT ... ON DUPLICATE KEY UPDATE: the update branch is taken only when
\* the insert collides with a unique key the table declares.
save_answer(ans, attempt_id, question_id, user_answer) ==
    LET dup == AnswerRows(ans, attempt_id, question_id) IN
    IF AnswerUniqueAttemptQuestion /\ dup # {}
    THEN [i \in DOMAIN ans |->
             IF i \in dup THEN Answer(attempt_id, question_id, user_answer)
             ELSE ans[i]]
    ELSE Append(ans, Answer(attempt_id, question_id, user_answer))

\* --------------------------------------------------- endpoints: helpers
\* get_valid_active_attempt without the timing check
get_valid_active_attempt_no_timing(atts, attempt_id, user, t) ==
    IF get(atts, attempt_id) = NoAttempt THEN "attempt_not_found"
    ELSE IF atts[attempt_id].user_id # user THEN "not_authorized"
    ELSE IF atts[attempt_id].status # "in_progress" THEN "not_in_progress"
    ELSE "ok"

get_valid_active_attempt(atts, attempt_id, user, t) ==
    IF get(atts, attempt_id) = NoAttempt THEN "attempt_not_found"
    ELSE IF atts[attempt_id].user_id # user THEN "not_authorized"
    ELSE IF atts[attempt_id].status # "in_progress" THEN "not_in_progress"
    ELSE IF atts[attempt_id].calculated_end_time # NULL
            /\ t > atts[attempt_id].calculated_end_time THEN "expired"
    ELSE "ok"

StartableStatuses == {"published", "ongoing"}

IsParticipant(u, e) ==
    \E p \in participants :
        /\ p.exam_id = e
        /\ (p.user_id = u \/ p.group_id \in user_groups[u])

\* the checks of the start endpoint without the test of exam.end_time
StartGuard_no_end_check(u, e, t) ==
    IF e \notin DOMAIN exams THEN "exam_not_found"
    ELSE IF exams[e].start_time > t THEN "not_started"
    ELSE IF exams[e].status \notin StartableStatuses THEN "bad_status"
    ELSE IF ~IsParticipant(u, e) THEN "not_participant"
    ELSE "ok"

\* the checks of start_or_resume_exam_attempt before it touches an attempt
StartGuard(u, e, t) ==
    IF e \notin DOMAIN exams THEN "exam_not_found"
    ELSE IF exams[e].start_time > t THEN "not_started"
    ELSE IF exams[e].end_time <= t THEN "ended"
    ELSE IF exams[e].status \notin StartableStatuses THEN "bad_status"
    ELSE IF ~IsParticipant(u, e) THEN "not_participant"
    ELSE "ok"

\* ------------------------------------------------------------------- Init
Exam(start_time, end_time, duration_minutes, paper_generation_mode, status) ==
    [start_time |-> start_time, end_time |-> end_time,
     duration_minutes |-> duration_minutes,
     paper_generation_mode |-> paper_generation_mode, status |-> status]

ExamParticipant(e, u, g) == [exam_id |-> e, user_id |-> u, group_id |-> g]

IdleReq ==
    [op |-> "idle", pc |-> "idle", user |-> 0, exam |-> 0, attempt |-> NoAttempt,
     loaded |-> ExamAttempt(0, 0), exam_status |-> "none", duration_minutes |-> 0,
     result |-> "none", ret |-> 0]

\* Exams are created as draft and moved to any status by an exam update; the
\* stored window satisfies start_time < end_time.  User 1 is in group 1.
InitStore(rosters) ==
    /\ now = 0
    /\ \E s \in ExamStatusEnum : exams = (1 :> Exam(1, 3, 1, "manual", s))
    /\ participants \in rosters
    /\ user_groups = (1 :> {1}) @@ (2 :> {})
    /\ attempts = <<>>
    /\ answers = <<>>
    /\ exam_questions = <<>>
    /\ pre_generated_papers = <<>>
    /\ exam_attempt_papers = <<>>
    /\ resp = Response("init", 0, 0, NoAttempt, "ok", 0)
    /\ req = [i \in 1..NumReq |-> IdleReq]

\* rosters: users 1 and 2 assigned directly, or user 1 alone through group 1
Init ==
    InitStore({{ExamParticipant(1, 1, NULL), ExamParticipant(1, 2, NULL)},
               {ExamParticipant(1, NULL, 1)}})

\* ------------------------------------------------------------------ clock
Tick ==
    /\ now < MaxTime
    /\ now' = now + 1
    /\ resp' = Response("tick", 0, 0, NoAttempt, "ok", 0)
    /\ UNCHANGED <<db, req>>

\* ------------------------------------------- endpoints, run to completion
\* POST /attempts/start/{exam_id}
StartOrResume(u, e) ==
    LET g == StartGuard(u, e, now) IN
    /\ UNCHANGED <<now, papers, participants, user_groups, answers, req>>
    /\ IF g # "ok"
       THEN /\ resp' = Response("start", u, e, NoAttempt, g, 0)
            /\ UNCHANGED <<exams, attempts>>
       ELSE \E found \in first(get_by_user_exam(attempts, u, e)) :
              LET c == create_or_get_pending(attempts, found, u, e) IN
              IF c.err # "none"
              THEN /\ resp' = Response("start", u, e, found, c.err, 0)
                   /\ UNCHANGED <<exams, attempts>>
              ELSE LET loaded == c.attempts[c.ret]
                       s == start_attempt(loaded, exams[e].duration_minutes, now)
                   IN
                   IF loaded.status = "pending"
                   THEN IF s.err # "none"
                        THEN /\ attempts' = c.attempts
                             /\ resp' = Response("start", u, e, c.ret, s.err, 0)
                             /\ UNCHANGED exams
                        ELSE /\ attempts' =
                                  [c.attempts EXCEPT ![c.ret] =
                                      Flush(c.attempts[c.ret], loaded, s.attempt)]
                             /\ exams' =
                                  IF exams[e].status = "published"
                                  THEN [exams EXCEPT ![e].status = "ongoing"]
                                  ELSE exams
                             /\ resp' = Response("start", u, e, c.ret, "ok", c.ret)
                   ELSE IF loaded.status # "in_progress"
                        THEN /\ attempts' = c.attempts
                             /\ resp' = Response("start", u, e, c.ret, "cannot_resume", 0)
                             /\ UNCHANGED exams
                        ELSE /\ attempts' = c.attempts
                             /\ resp' = Response("start", u, e, c.ret, "ok", c.ret)
                             /\ UNCHANGED exams

\* the (question, order_index, score) tuples of paper rows joined with
\* questions: a row whose question has no row drops out
QuestionTuples(rows) ==
    LET joined == SelectSeq(rows, LAMBDA r : r.question_id \in QuestionIds) IN
    [k \in DOMAIN joined |->
        [question_id |-> joined[k].question_id,
         order_index |-> joined[k].order_index, score |-> joined[k].score]]

\* ORDER BY order_index: the rows in every order the key allows
OrderByOrderIndex(rows) ==
    LET n == Len(rows) IN
    {[k \in 1..n |-> rows[p[k]]] :
        p \in {f \in [1..n -> 1..n] :
                 /\ \A i \in 1..n, j \in 1..n : i # j => f[i] # f[j]
                 /\ \A i \in 1..n, j \in 1..n :
                       i < j => rows[f[i]].order_index <= rows[f[j]].order_index}}

\* CRUDExamAttempt.get_attempt_paper_questions: the results it can return
get_attempt_paper_questions(attempt_id) ==
    IF attempt_id \notin DOMAIN attempts THEN {<<>>}
    ELSE LET e == attempts[attempt_id].exam_id IN
         IF e \notin DOMAIN exams THEN {<<>>}
         ELSE IF exams[e].paper_generation_mode = "random_individual"
         THEN OrderByOrderIndex(QuestionTuples(
                  SelectSeq(exam_attempt_papers,
                            LAMBDA r : r.attempt_id = attempt_id)))
         ELSE OrderByOrderIndex(QuestionTuples(
                  SelectSeq(exam_questions, LAMBDA r : r.exam_id = e)))

\* GET /attempts/{attempt_id}/questions
GetAttemptQuestions(u, a) ==
    LET v == get_valid_active_attempt(attempts, a, u, now) IN
    /\ IF v # "ok"
       THEN resp' = Response("questions", u, 0, a, v, 0)
       ELSE \E paper \in get_attempt_paper_questions(a) :
               resp' = [questions |-> paper] @@ Response("questions", u, 0, a, v, a)
    /\ UNCHANGED <<now, db, req>>

\* PUT /attempts/{attempt_id}/answers/{question_id}
SaveAnswer(u, a, q, val) ==
    LET v == get_valid_active_attempt(attempts, a, u, now) IN
    /\ UNCHANGED <<now, papers, exams, participants, user_groups, attempts, req>>
    /\ IF v # "ok"
       THEN /\ resp' = Response("save", u, 0, a, v, 0)
            /\ UNCHANGED answers
       ELSE /\ Len(save_answer(answers, a, q, val)) <= MaxAnswers
            /\ answers' = save_answer(answers, a, q, val)
            /\ \E saved \in AnswerRows(answers', a, q) :
                 resp' = [question_id |-> q, user_answer |-> val]
                            @@ Response("save", u, 0, a, "ok", saved)

\* POST /attempts/{attempt_id}/submit
SubmitExamAttempt(u, a) ==
    LET v == get_valid_active_attempt(attempts, a, u, now) IN
    /\ UNCHANGED <<now, papers, exams, participants, user_groups, answers, req>>
    /\ IF v # "ok"
       THEN /\ resp' = Response("submit", u, 0, a, v, 0)
            /\ UNCHANGED attempts
       ELSE LET s == submit_attempt(attempts[a], now) IN
            IF s.err # "none"
            THEN /\ resp' = Response("submit", u, 0, a, s.err, 0)
                 /\ UNCHANGED attempts
            ELSE /\ attempts' = [attempts EXCEPT ![a] =
                                    Flush(attempts[a], attempts[a], s.attempt)]
                 /\ resp' = Response("submit", u, 0, a, "ok", a)

\* POST /attempts/{attempt_id}/heartbeat
AttemptHeartbeat(u, a) ==
    LET h == update_heartbeat(attempts, a, now) IN
    /\ attempts' = h.attempts
    /\ resp' = Response("heartbeat", u, 0, a,
                        IF h.ret THEN "ok" ELSE "active_attempt_not_found",
                        IF h.ret THEN a ELSE 0)
    /\ UNCHANGED <<now, papers, exams, participants, user_groups, answers, req>>

AttemptIds == 1..(Len(attempts) + 1)

\* crud_exam_attempt.update_status, the forced transition of the external sweep
UpdateStatus(a, new_status) ==
    LET r == update_status(attempts, a, new_status) IN
    /\ attempts' = r.attempts
    /\ resp' = Response("update_status", 0, 0, a,
                        IF r.ret = NoAttempt THEN "attempt_not_found" ELSE "ok", r.ret)
    /\ UNCHANGED <<now, papers, exams, participants, user_groups, answers, req>>

\* ------------------------------------------------------- attempt lifecycle
\* The endpoints of the attempt lifecycle, each run to completion.
Next ==
    \/ Tick
    \/ \E u \in Users, e \in RequestExamIds : StartOrResume(u, e)
    \/ \E u \in Users, a \in AttemptIds : SubmitExamAttempt(u, a)
    \/ \E u \in Users, a \in AttemptIds : AttemptHeartbeat(u, a)

Spec == Init /\ [][Next]_vars

\* ------------------------------------------------------------ answer store
\* The endpoints a student uses while taking the exam, with user 1 the one
\* participant.
AnswerInit ==
    InitStore({{ExamParticipant(1, 1, NULL)}, {ExamParticipant(1, NULL, 1)}})

AnswerNext ==
    \/ Tick
    \/ \E u \in Users, e \in RequestExamIds : StartOrResume(u, e)
    \/ \E u \in Users, a \in AttemptIds : GetAttemptQuestions(u, a)
    \/ \E u \in Users, a \in AttemptIds, q \in Questions, val \in AnswerValues :
           SaveAnswer(u, a, q, val)
    \/ \E u \in Users, a \in AttemptIds : SubmitExamAttempt(u, a)

AnswerSpec == AnswerInit /\ [][AnswerNext]_vars

\* --------------------------------------------------------------- crud layer
\* Direct calls of the CRUDExamAttempt methods.  create_or_get_pending is
\* called for an existing exam and one of its participants, as its comment
\* asks of the caller; start_attempt and submit_attempt are called with an
\* attempt loaded from the store.
CreateOrGetPendingCall(u, e) ==
    /\ e \in DOMAIN exams
    /\ IsParticipant(u, e)
    /\ \E found \in first(get_by_user_exam(attempts, u, e)) :
         LET c == create_or_get_pending(attempts, found, u, e) IN
         /\ attempts' = c.attempts
         /\ resp' = Response("create_or_get_pending", u, e, found,
                             IF c.err = "none" THEN "ok" ELSE c.err, c.ret)
    /\ UNCHANGED <<now, papers, exams, participants, user_groups, answers, req>>

StartAttemptCall(a) ==
    /\ a \in DOMAIN attempts
    /\ LET s == start_attempt(attempts[a],
                              exams[attempts[a].exam_id].duration_minutes, now)
       IN
       /\ attempts' = IF s.commit
                      THEN [attempts EXCEPT ![a] =
                               Flush(attempts[a], attempts[a], s.attempt)]
                      ELSE attempts
       /\ resp' = Response("start_attempt", attempts[a].user_id, 0, a,
                           IF s.err = "none" THEN "ok" ELSE s.err,
                           IF s.err = "none" THEN a ELSE 0)
    /\ UNCHANGED <<now, papers, exams, participants, user_groups, answers, req>>

SubmitAttemptCall(a) ==
    /\ a \in DOMAIN attempts
    /\ LET s == submit_attempt(attempts[a], now) IN
       /\ attempts' = IF s.commit
                      THEN [attempts EXCEPT ![a] =
                               Flush(attempts[a], attempts[a], s.attempt)]
                      ELSE attempts
       /\ resp' = Response("submit_attempt", attempts[a].user_id, 0, a,
                           IF s.err = "none" THEN "ok" ELSE s.err,
                           IF s.err = "none" THEN a ELSE 0)
    /\ UNCHANGED <<now, papers, exams, participants, user_groups, answers, req>>

CrudInit == AnswerInit

CrudNext ==
    \/ Tick
    \/ \E u \in Users, e \in RequestExamIds : StartOrResume(u, e)
    \/ \E u \in Users, a \in AttemptIds : SubmitExamAttempt(u, a)
    \/ \E u \in Users, a \in AttemptIds : AttemptHeartbeat(u, a)
    \/ \E a \in AttemptIds, s \in ExamAttemptStatusEnum : UpdateStatus(a, s)
    \/ \E u \in Users, e \in ExamIds : CreateOrGetPendingCall(u, e)
    \/ \E a \in AttemptIds : StartAttemptCall(a)
    \/ \E a \in AttemptIds : SubmitAttemptCall(a)

CrudSpec == CrudInit /\ [][CrudNext]_vars

\* ------------------------------------------------- requests, interleaved
\* A request in flight holds what its handler holds between two storage
\* awaits: the objects it loaded and its position in the handler.
\* what resp holds after a step of an in-flight request
Awaited == Response("await", 0, 0, NoAttempt, "ok", 0)

Finish(i) ==
    /\ req[i].pc = "done"
    /\ req' = [req EXCEPT ![i] = IdleReq]
    /\ resp' = Awaited
    /\ UNCHANGED <<now, db>>

\* start_or_resume_exam_attempt up to the participant check: db.get(Exam) and
\* the participant query; the handler keeps the loaded exam object.
StartValidate(i, u, e) ==
    /\ req[i].pc = "idle"
    /\ LET g == StartGuard(u, e, now) IN
       req' = [req EXCEPT ![i] =
                 IF g # "ok"
                 THEN [IdleReq EXCEPT !.op = "start", !.pc = "done", !.user = u,
                                      !.exam = e, !.result = g]
                 ELSE [IdleReq EXCEPT !.op = "start", !.pc = "lookup", !.user = u,
                                      !.exam = e,
                                      !.exam_status = exams[e].status,
                                      !.duration_minutes = exams[e].duration_minutes]]
    /\ resp' = Awaited
    /\ UNCHANGED <<now, db>>

\* create_or_get_pending: the select of get_by_user_exam, and everything the
\* handler does without another await when a row came back.
StartLookup(i) ==
    /\ req[i].pc = "lookup"
    /\ \E found \in first(get_by_user_exam(attempts, req[i].user, req[i].exam)) :
         IF found = NoAttempt
         THEN req' = [req EXCEPT ![i].pc = "insert"]
         ELSE IF attempts[found].status \in CompletedStatuses
         THEN req' = [req EXCEPT ![i].pc = "done", ![i].attempt = found,
                                 ![i].result = "already_completed"]
         ELSE IF attempts[found].status = "pending"
         THEN req' = [req EXCEPT ![i].pc = "start", ![i].attempt = found,
                                 ![i].loaded = attempts[found]]
         ELSE IF attempts[found].status # "in_progress"
         THEN req' = [req EXCEPT ![i].pc = "done", ![i].attempt = found,
                                 ![i].result = "cannot_resume"]
         ELSE req' = [req EXCEPT ![i].pc = "done", ![i].attempt = found,
                                 ![i].loaded = attempts[found],
                                 ![i].result = "ok", ![i].ret = found]
    /\ resp' = Awaited
    /\ UNCHANGED <<now, db>>

\* create_or_get_pending: db.add, commit, refresh of the new pending row
StartInsert(i) ==
    /\ req[i].pc = "insert"
    /\ LET c == InsertAttempt(attempts, req[i].user, req[i].exam) IN
       /\ attempts' = c.attempts
       /\ req' = IF c.err # "none"
                 THEN [req EXCEPT ![i].pc = "done", ![i].result = c.err]
                 ELSE [req EXCEPT ![i].pc = "start", ![i].attempt = c.ret,
                                  ![i].loaded = c.attempts[c.ret]]
    /\ resp' = Awaited
    /\ UNCHANGED <<now, papers, exams, participants, user_groups, answers>>

\* start_attempt on the loaded pending object: commit, refresh
StartCommit(i) ==
    /\ req[i].pc = "start"
    /\ LET a == req[i].attempt
           s == start_attempt(req[i].loaded, req[i].duration_minutes, now)
           row == Flush(attempts[a], req[i].loaded, s.attempt)
       IN
       IF s.err # "none"
       THEN /\ req' = [req EXCEPT ![i].pc = "done", ![i].result = s.err]
            /\ UNCHANGED attempts
       ELSE /\ attempts' = [attempts EXCEPT ![a] = row]
            /\ req' = [req EXCEPT
                         ![i].pc = IF req[i].exam_status = "published"
                                   THEN "exam" ELSE "done",
                         ![i].loaded = row, ![i].result = "ok", ![i].ret = a]
    /\ resp' = Awaited
    /\ UNCHANGED <<now, papers, exams, participants, user_groups, answers>>

\* exam.status = ongoing; commit
StartExamOngoing(i) ==
    /\ req[i].pc = "exam"
    /\ exams' = [exams EXCEPT ![req[i].exam].status = "ongoing"]
    /\ req' = [req EXCEPT ![i].pc = "done"]
    /\ resp' = Awaited
    /\ UNCHANGED <<now, papers, participants, user_groups, attempts, answers>>

Requests == 1..NumReq

StartRaceNext ==
    \/ Tick
    \/ \E i \in Requests, u \in Users, e \in RequestExamIds : StartValidate(i, u, e)
    \/ \E i \in Requests : StartLookup(i)
    \/ \E i \in Requests : StartInsert(i)
    \/ \E i \in Requests : StartCommit(i)
    \/ \E i \in Requests : StartExamOngoing(i)
    \/ \E i \in Requests : Finish(i)

StartRaceSpec == Init /\ [][StartRaceNext]_vars

\* submit_exam_attempt up to get_valid_active_attempt: the select and the
\* checks on the loaded attempt.  One submit is in flight at a time.
SubmitRequest == 1

SubmitLoad(u, a) ==
    /\ req[SubmitRequest].pc = "idle"
    /\ LET v == get_valid_active_attempt(attempts, a, u, now) IN
       req' = [req EXCEPT ![SubmitRequest] =
                 IF v # "ok"
                 THEN [IdleReq EXCEPT !.op = "submit", !.pc = "done", !.user = u,
                                      !.attempt = a, !.result = v]
                 ELSE [IdleReq EXCEPT !.op = "submit", !.pc = "loaded", !.user = u,
                                      !.attempt = a, !.loaded = attempts[a]]]
    /\ resp' = Awaited
    /\ UNCHANGED <<now, db>>

\* submit_attempt on the loaded object: commit, refresh
SubmitCommit ==
    /\ req[SubmitRequest].pc = "loaded"
    /\ LET a == req[SubmitRequest].attempt
           s == submit_attempt(req[SubmitRequest].loaded, now)
           row == Flush(attempts[a], req[SubmitRequest].loaded, s.attempt)
       IN
       IF s.err # "none"
       THEN /\ req' = [req EXCEPT ![SubmitRequest].pc = "done",
                                  ![SubmitRequest].result = s.err]
            /\ UNCHANGED attempts
       ELSE /\ attempts' = [attempts EXCEPT ![a] = row]
            /\ req' = [req EXCEPT ![SubmitRequest].pc = "done",
                                  ![SubmitRequest].loaded = row,
                                  ![SubmitRequest].result = "ok",
                                  ![SubmitRequest].ret = a]
    /\ resp' = Awaited
    /\ UNCHANGED <<now, papers, exams, participants, user_groups, answers>>

HbSubmitNext ==
    \/ Tick
    \/ \E u \in Users, e \in RequestExamIds : StartOrResume(u, e)
    \/ \E u \in Users, a \in AttemptIds : AttemptHeartbeat(u, a)
    \/ \E u \in Users, a \in AttemptIds : SubmitLoad(u, a)
    \/ SubmitCommit
    \/ Finish(SubmitRequest)

HbSubmitSpec == Init /\ [][HbSubmitNext]_vars

\* ------------------------------------------------------------ question bank
\* questions: id -> chapter and type.  Chapter 1 holds questions 1 and 2,
\* chapter 2 holds question 3, chapter 3 holds none.
QuestionCatalog ==
    (1 :> [chapter_id |-> 1, question_type |-> "single_choice"])
    @@ (2 :> [chapter_id |-> 1, question_type |-> "short_answer"])
    @@ (3 :> [chapter_id |-> 2, question_type |-> "single_choice"])

PaperGenerationModeEnum == {"manual", "random_unified", "random_individual"}

\* question_type = None of a rule: any type
NoQuestionType == "None"

\* exam.random_rules_json when the exam object carries no rules
NoRules == <<>>

RandomQuestionParameter(chapter_ids, question_type, count, score_per_question) ==
    [chapter_ids |-> chapter_ids, question_type |-> question_type,
     count |-> count, score_per_question |-> score_per_question]

\* rule lists a request carries: a count above the pool, two rules on
\* overlapping chapters, a typed rule, and a rule on an empty chapter
RuleLists ==
    {<<RandomQuestionParameter({1}, NoQuestionType, 3, 2)>>,
     <<RandomQuestionParameter({1, 2}, NoQuestionType, 1, 1),
       RandomQuestionParameter({1}, NoQuestionType, 2, 2)>>,
     <<RandomQuestionParameter({1, 2}, "short_answer", 2, 1)>>,
     <<RandomQuestionParameter({3}, NoQuestionType, 1, 1)>>}

\* ------------------------------------------------------- paper generation
\* select Question.id join Chapter where Chapter.id in rule.chapter_ids and
\* Question.id not in question_ids_selected [and question_type = ...]
RulePool(rule, question_ids_selected) ==
    {q \in DOMAIN QuestionCatalog :
        /\ QuestionCatalog[q].chapter_id \in rule.chapter_ids
        /\ q \notin question_ids_selected
        /\ (rule.question_type # NoQuestionType
            => QuestionCatalog[q].question_type = rule.question_type)}

Min(a, b) == IF a <= b THEN a ELSE b

\* a draw that gives nothing when the pool is smaller than count
Draws_nothing_on_shortfall(pool, count) ==
    LET k == IF count <= Cardinality(pool) THEN count ELSE 0 IN
    {q_ids \in [1..k -> pool] :
        \A i \in 1..k, j \in 1..k : i # j => q_ids[i] # q_ids[j]}

\* ORDER BY rand() LIMIT count: the rows of the pool in any order, cut at count
Draws(pool, count) ==
    LET k == Min(count, Cardinality(pool)) IN
    {q_ids \in [1..k -> pool] :
        \A i \in 1..k, j \in 1..k : i # j => q_ids[i] # q_ids[j]}

\* an entry that carries the question's own default score (Question.score)
PaperEntry_default_score(q_id, rule, order_idx) ==
    [question_id |-> q_id, score |-> 1, order_index |-> order_idx]

\* selected_questions.append({"question_id": ..., "score": ..., "order_index": ...})
PaperEntry(q_id, rule, order_idx) ==
    [question_id |-> q_id, score |-> rule.score_per_question,
     order_index |-> order_idx]

RECURSIVE SelectQuestions(_, _, _)
\* the loop over the rules of generate_unified_paper and
\* _generate_single_individual_paper: every list of selected questions the
\* loop can end with
SelectQuestions(rules, selected_questions, order_idx) ==
    IF rules = <<>> THEN {selected_questions}
    ELSE LET rule == Head(rules)
             question_ids_selected ==
                 {selected_questions[k].question_id : k \in DOMAIN selected_questions}
         IN
         UNION {SelectQuestions(
                    Tail(rules),
                    selected_questions \o
                        [k \in 1..Len(q_ids) |->
                            PaperEntry(q_ids[k], rule, order_idx + k - 1)],
                    order_idx + Len(q_ids)) :
                q_ids \in Draws(RulePool(rule, question_ids_selected), rule.count)}

\* the papers the rules can give; the empty list stands for the ValueError
\* raised when nothing was selected
generate_single_individual_paper(rules) == SelectQuestions(rules, <<>>, 0)

generate_unified_paper(rules) == SelectQuestions(rules, <<>>, 0)

ExamQuestion(e, q_data) ==
    [exam_id |-> e, question_id |-> q_data.question_id, score |-> q_data.score,
     order_index |-> q_data.order_index]

PreGeneratedPaper(e, u, q_data) ==
    [exam_id |-> e, user_id |-> u, question_id |-> q_data.question_id,
     score |-> q_data.score, order_index |-> q_data.order_index]

\* ------------------------------------------------------------- CRUDExam
\* _resolve_participant_user_ids over the participant rows a query sees
resolve_participant_user_ids(parts, e) ==
    LET rows == {p \in parts : p.exam_id = e}
        group_ids == {p.group_id : p \in {r \in rows : r.group_id # NULL}}
    IN
    {p.user_id : p \in {r \in rows : r.user_id # NULL}}
    \cup {u \in DOMAIN user_groups : user_groups[u] \cap group_ids # {}}

\* The session of one update call: the loaded exam object, the tables as the
\* statements executed so far in the transaction left them, and the objects
\* added to the session but not flushed (autoflush is off).
Session(e) ==
    [exam_id |-> e, exam |-> exams[e], random_rules_json |-> NoRules,
     participants |-> participants, new_participants_db |-> {},
     exam_questions |-> exam_questions, new_exam_questions |-> <<>>,
     pre_generated_papers |-> pre_generated_papers, err |-> "none"]

RECURSIVE PaperRows(_, _, _)
\* all_paper_data: the rows of the papers of the users, a user whose
\* generation raised (empty paper) being skipped
PaperRows(e, users, paper_of) ==
    IF users = {} THEN <<>>
    ELSE LET u == CHOOSE x \in users : \A y \in users : x <= y IN
         [k \in DOMAIN paper_of[u] |-> PreGeneratedPaper(e, u, paper_of[u][k])]
         \o PaperRows(e, users \ {u}, paper_of)

\* uq_pregen_exam_user_question and uq_pregen_exam_user_order hold of the rows
PreGeneratedUnique(rows) ==
    \A i \in DOMAIN rows, j \in DOMAIN rows :
        (i # j /\ rows[i].exam_id = rows[j].exam_id
               /\ rows[i].user_id = rows[j].user_id)
        => /\ rows[i].question_id # rows[j].question_id
           /\ rows[i].order_index # rows[j].order_index

\* sql_insert(PreGeneratedPaper) of the rows in the session s
InsertPreGenerated(s, rows) ==
    IF PreGeneratedUnique(s.pre_generated_papers \o rows)
    THEN [s EXCEPT !.pre_generated_papers = @ \o rows]
    ELSE [s EXCEPT !.err = "integrity_error"]

\* CRUDExam._sync_participants; the sessions it can end in
sync_participants(s, assignment, handle_paper_delta) ==
    LET e == s.exam_id
        current_users == IF handle_paper_delta
                         THEN resolve_participant_user_ids(s.participants, e)
                         ELSE {}
        cleared == {p \in s.participants : p.exam_id # e}
        new_participants_db ==
            {ExamParticipant(e, u, NULL) : u \in assignment.user_ids}
            \cup {ExamParticipant(e, NULL, g) : g \in assignment.group_ids}
        s1 == [s EXCEPT !.participants = cleared,
                        !.new_participants_db = new_participants_db]
    IN
    IF ~(handle_paper_delta /\ s.exam.paper_generation_mode = "random_individual")
    THEN {s1}
    ELSE LET s2 == [s1 EXCEPT !.participants = cleared \cup new_participants_db,
                              !.new_participants_db = {}]
             new_users == resolve_participant_user_ids(s2.participants, e)
             added_users == new_users \ current_users
             removed_users == current_users \ new_users
             Remove(t) ==
                 IF t.err # "none" \/ removed_users = {} THEN t
                 ELSE [t EXCEPT !.pre_generated_papers =
                          SelectSeq(@, LAMBDA r : ~(r.exam_id = e
                                                    /\ r.user_id \in removed_users))]
         IN
         IF added_users = {} THEN {Remove(s2)}
         ELSE IF s2.random_rules_json = NoRules
         THEN {[s2 EXCEPT !.err = "missing_rules"]}
         ELSE {Remove(IF PaperRows(e, added_users, paper_of) = <<>> THEN s2
                      ELSE InsertPreGenerated(s2, PaperRows(e, added_users, paper_of))) :
               paper_of \in [added_users ->
                                generate_single_individual_paper(s2.random_rules_json)]}

ExamRows(rows, e) == SelectSeq(rows, LAMBDA r : r.exam_id = e)

OtherExamRows(rows, e) == SelectSeq(rows, LAMBDA r : r.exam_id # e)

\* CRUDExam._sync_manual_questions
sync_manual_questions(s, questions_in) ==
    LET e == s.exam_id
        q_ids == [k \in DOMAIN questions_in |-> questions_in[k].question_id]
        valid_q_ids == {q_ids[k] : k \in DOMAIN q_ids} \cap DOMAIN QuestionCatalog
    IN
    IF Cardinality(valid_q_ids) # Len(q_ids)
    THEN [s EXCEPT !.err = "invalid_question_ids"]
    ELSE [s EXCEPT !.exam_questions = OtherExamRows(@, e),
                   !.new_exam_questions =
                       @ \o [k \in DOMAIN questions_in |->
                                ExamQuestion(e, questions_in[k])]]

\* CRUDExam._generate_individual_papers_for_all_users
generate_individual_papers_for_all_users(s, rules) ==
    LET e == s.exam_id
        user_ids == resolve_participant_user_ids(s.participants, e)
    IN
    IF user_ids = {} THEN {s}
    ELSE {IF PaperRows(e, user_ids, paper_of) = <<>>
          THEN [s EXCEPT !.err = "no_individual_paper"]
          ELSE InsertPreGenerated(s, PaperRows(e, user_ids, paper_of)) :
          paper_of \in [user_ids -> generate_single_individual_paper(rules)]}

\* CRUDExam._generate_all_papers; the sessions it can end in
generate_all_papers(s) ==
    LET e == s.exam_id
        mode == s.exam.paper_generation_mode
        s1 == IF mode = "random_individual"
              THEN [s EXCEPT !.pre_generated_papers = OtherExamRows(@, e)]
              ELSE [s EXCEPT !.exam_questions = OtherExamRows(@, e)]
    IN
    CASE mode = "random_unified" ->
           IF s1.random_rules_json = NoRules THEN {[s1 EXCEPT !.err = "missing_rules"]}
           ELSE {IF paper = <<>>
                 THEN [s1 EXCEPT !.err = "no_questions"]
                 ELSE [s1 EXCEPT !.new_exam_questions =
                          @ \o [k \in DOMAIN paper |-> ExamQuestion(e, paper[k])]] :
                 paper \in generate_unified_paper(s1.random_rules_json)}
      [] mode = "random_individual" ->
           IF s1.random_rules_json = NoRules THEN {[s1 EXCEPT !.err = "missing_rules"]}
           ELSE generate_individual_papers_for_all_users(s1, s1.random_rules_json)
      [] OTHER ->
           IF Len(ExamRows(s1.exam_questions, e)) = 0
           THEN {[s1 EXCEPT !.err = "manual_no_questions"]}
           ELSE {s1}

\* obj_in.model_dump(exclude_unset=True) carries the field f
IsSet(obj_in, f) == f \in DOMAIN obj_in

\* the columns of exams that update_data can carry
UpdateDataFields == {"start_time", "end_time", "duration_minutes", "status"}

\* immutable_fields of update; paper_generation_mode is no field of ExamUpdate
ImmutableFields ==
    {"start_time", "end_time", "duration_minutes", "manual_questions",
     "random_rules"}

\* a failed generation that update lets pass
PublishFailure_swallowed(t) == [t EXCEPT !.err = "none"]

\* except Exception: db.rollback() and ValueError("Failed to generate ...")
PublishFailure(t) == [t EXCEPT !.err = "generation_failed"]

\* CRUDExam.update up to its commit, on the session s0 that loaded the exam:
\* the sessions it can end in; err names the exception that left the call
update(s0, obj_in) ==
    LET original_status == s0.exam.status
        new_status == IF IsSet(obj_in, "status") THEN obj_in.status ELSE "unset"
        mode == s0.exam.paper_generation_mode
        s1 == IF IsSet(obj_in, "random_rules") /\ mode # "manual"
              THEN [s0 EXCEPT !.random_rules_json = obj_in.random_rules]
              ELSE s0
        Participants ==
            IF IsSet(obj_in, "participants")
            THEN sync_participants(s1, obj_in.participants,
                                   original_status = "published")
            ELSE {s1}
        ManualQuestions(s) ==
            IF s.err = "none" /\ IsSet(obj_in, "manual_questions") /\ mode = "manual"
            THEN sync_manual_questions(s, obj_in.manual_questions)
            ELSE s
        BasicFields(s) ==
            IF s.err # "none" THEN s
            ELSE [s EXCEPT
                    !.exam = [f \in DOMAIN @ |->
                                IF f \in UpdateDataFields /\ IsSet(obj_in, f)
                                THEN obj_in[f] ELSE @[f]]]
        Publish(s) ==
            IF s.err = "none" /\ new_status = "published" /\ original_status = "draft"
            THEN {IF t.err # "none" THEN PublishFailure(t) ELSE t :
                  t \in generate_all_papers(s)}
            ELSE {s}
    IN
    IF /\ original_status # "draft"
       /\ \E f \in ImmutableFields : IsSet(obj_in, f)
    THEN {[s0 EXCEPT !.err = "immutable_fields"]}
    ELSE UNION {Publish(BasicFields(ManualQuestions(s))) : s \in Participants}

\* PUT /exams/{exam_id}: the update and its commit, or the error and the
\* rollback of everything the call did
UpdateExam(e, obj_in) ==
    /\ e \in DOMAIN exams
    /\ \E s \in update(Session(e), obj_in) :
         /\ resp' = [obj_in |-> obj_in]
                    @@ Response("update_exam", 0, e, NoAttempt,
                                IF s.err = "none" THEN "ok" ELSE s.err, 0)
         /\ IF s.err # "none"
            THEN UNCHANGED <<exams, participants, exam_questions,
                             pre_generated_papers>>
            ELSE /\ exams' = [exams EXCEPT ![e] = s.exam]
                 /\ participants' = s.participants \cup s.new_participants_db
                 /\ exam_questions' = s.exam_questions \o s.new_exam_questions
                 /\ pre_generated_papers' = s.pre_generated_papers
    /\ UNCHANGED <<now, user_groups, attempts, answers, exam_attempt_papers, req>>

\* ------------------------------------------- random papers, one at a time
\* participant assignments a request carries; user 1 is in group 1
Assignments ==
    {[user_ids |-> {1}, group_ids |-> {}],
     [user_ids |-> {2}, group_ids |-> {}],
     [user_ids |-> {2}, group_ids |-> {1}],
     [user_ids |-> {}, group_ids |-> {}]}

\* the bodies of PUT /exams/{exam_id}: publish with and without rules, publish
\* together with a new duration and new participants, back to draft, and a
\* participant update with and without rules
PaperUpdates ==
    {[status |-> "published"], [status |-> "draft"]}
    \cup {[status |-> "published", random_rules |-> rules] : rules \in RuleLists}
    \cup {[status |-> "published", random_rules |-> rules, duration_minutes |-> 2,
           participants |-> assignment] :
            rules \in RuleLists, assignment \in Assignments}
    \cup {[participants |-> assignment] : assignment \in Assignments}
    \cup {[participants |-> assignment, random_rules |-> rules] :
            assignment \in Assignments, rules \in {r \in RuleLists : Len(r) = 2}}

\* a draft exam of the given mode, user 1 assigned to it
PaperInitMode(paper_generation_mode) ==
    /\ now = 0
    /\ exams = (1 :> Exam(1, 3, 1, paper_generation_mode, "draft"))
    /\ participants = {ExamParticipant(1, 1, NULL)}
    /\ user_groups = (1 :> {1}) @@ (2 :> {})
    /\ attempts = <<>>
    /\ answers = <<>>
    /\ exam_questions = <<>>
    /\ pre_generated_papers = <<>>
    /\ exam_attempt_papers = <<>>
    /\ resp = Response("init", 0, 0, NoAttempt, "ok", 0)
    /\ req = [i \in 1..NumReq |-> IdleReq]

PaperNext == \E e \in DOMAIN exams, obj_in \in PaperUpdates : UpdateExam(e, obj_in)

\* one paper for all participants, or one paper per participant
PaperInit == \E m \in {"random_unified", "random_individual"} : PaperInitMode(m)

PaperSpec == PaperInit /\ [][PaperNext]_vars

\* ------------------------------------------------------- manual papers
ExamQuestionManualInput(question_id, score, order_index) ==
    [question_id |-> question_id, score |-> score, order_index |-> order_index]

\* manual question lists that pass the request schema (score > 0,
\* order_index >= 0): two well-formed lists, the empty list, a question id
\* with no row, a gap in order_index, a repeated order_index, a list that
\* starts at 1, and a question given twice
ManualLists ==
    {<<ExamQuestionManualInput(1, 5, 0), ExamQuestionManualInput(2, 5, 1)>>,
     <<ExamQuestionManualInput(3, 2, 0)>>,
     <<>>,
     <<ExamQuestionManualInput(1, 5, 0), ExamQuestionManualInput(4, 5, 1)>>,
     <<ExamQuestionManualInput(1, 5, 0), ExamQuestionManualInput(2, 5, 2)>>,
     <<ExamQuestionManualInput(1, 5, 1), ExamQuestionManualInput(2, 5, 1)>>,
     <<ExamQuestionManualInput(2, 5, 1)>>,
     <<ExamQuestionManualInput(1, 5, 0), ExamQuestionManualInput(1, 5, 1)>>}

\* save a list, publish, publish together with a list, open the exam without
\* publishing it, and back to draft
ManualUpdates ==
    {[status |-> "published"], [status |-> "ongoing"], [status |-> "draft"]}
    \cup {[manual_questions |-> l] : l \in ManualLists}
    \cup {[status |-> "published", manual_questions |-> l] : l \in ManualLists}

ManualNext == \E e \in DOMAIN exams, obj_in \in ManualUpdates : UpdateExam(e, obj_in)

ManualSpec == PaperInitMode("manual") /\ [][ManualNext]_vars

\* ------------------------------------------ publish requests, interleaved
\* A PUT /exams/{exam_id} in three steps: the endpoint loads the exam, update
\* runs its statements up to the commit, the commit flushes and ends the
\* transaction.  A statement reads the committed rows and the rows of its own
\* transaction.  The rows a DELETE matched stay locked until its transaction
\* ends: a DELETE of another transaction on the same exam waits for them.
\* exam_questions declares no unique key (the UniqueConstraints are
\* commented out in the model class), so an INSERT of it never conflicts.
PublishUpdates == {[status |-> "published", random_rules |-> rules] : rules \in RuleLists}

UpdateLoad(i, e, obj_in) ==
    /\ req[i].pc = "idle"
    /\ e \in DOMAIN exams
    /\ req' = [req EXCEPT ![i] = [op |-> "update_exam", pc |-> "loaded", exam |-> e,
                                  obj_in |-> obj_in, loaded |-> exams[e]]]
    /\ resp' = Awaited
    /\ UNCHANGED <<now, db>>

\* the in-flight requests other than i that hold deleted rows of exam e
HoldsDeleted(i, e) ==
    {j \in DOMAIN req \ {i} :
        /\ req[j].pc = "executed"
        /\ req[j].exam = e
        /\ Len(req[j].session.exam_questions) < req[j].seen}

UpdateExecute(i) ==
    /\ req[i].pc = "loaded"
    /\ HoldsDeleted(i, req[i].exam) = {}
    /\ \E s \in update([Session(req[i].exam) EXCEPT !.exam = req[i].loaded],
                       req[i].obj_in) :
         IF s.err # "none"
         THEN /\ req' = [req EXCEPT ![i] = IdleReq]
              /\ resp' = [obj_in |-> req[i].obj_in]
                         @@ Response("update_exam", 0, req[i].exam, NoAttempt, s.err, 0)
         ELSE /\ req' = [req EXCEPT ![i] =
                            [op |-> "update_exam", pc |-> "executed",
                             exam |-> req[i].exam, obj_in |-> req[i].obj_in,
                             loaded |-> req[i].loaded, session |-> s,
                             seen |-> Len(exam_questions)]]
              /\ resp' = Awaited
    /\ UNCHANGED <<now, db>>

\* db.commit(): the rows committed by others since the statements ran stay
UpdateCommit(i) ==
    /\ req[i].pc = "executed"
    /\ LET s == req[i].session
           e == req[i].exam
       IN
       /\ exams' = [exams EXCEPT ![e] = Flush(exams[e], req[i].loaded, s.exam)]
       /\ participants' = s.participants \cup s.new_participants_db
       /\ exam_questions' =
              s.exam_questions
              \o SubSeq(exam_questions, req[i].seen + 1, Len(exam_questions))
              \o s.new_exam_questions
       /\ pre_generated_papers' = s.pre_generated_papers
       /\ resp' = [obj_in |-> req[i].obj_in]
                  @@ Response("update_exam", 0, e, NoAttempt, "ok", 0)
    /\ req' = [req EXCEPT ![i] = IdleReq]
    /\ UNCHANGED <<now, user_groups, attempts, answers, exam_attempt_papers>>

PublishRaceNext ==
    \/ \E i \in DOMAIN req, e \in DOMAIN exams, obj_in \in PublishUpdates :
          UpdateLoad(i, e, obj_in)
    \/ \E i \in DOMAIN req : UpdateExecute(i)
    \/ \E i \in DOMAIN req : UpdateCommit(i)
    \/ \E e \in DOMAIN exams : UpdateExam(e, [status |-> "draft"])

PublishRaceSpec == PaperInitMode("random_unified") /\ [][PublishRaceNext]_vars

\* ----------------------------------- individual papers and their attempts
\* publish with rules, alone or together with participants; set the status
\* again; replace the participants
RosterUpdates ==
    {[status |-> "published"], [status |-> "ongoing"]}
    \cup {[status |-> "published", random_rules |-> rules] :
            rules \in {r \in RuleLists : Len(r) = 1}}
    \cup {[status |-> "published", participants |-> assignment,
           random_rules |-> <<RandomQuestionParameter({1}, NoQuestionType, 3, 2)>>] :
            assignment \in Assignments}
    \cup {[participants |-> assignment] : assignment \in Assignments}

RosterNext ==
    \/ Tick
    \/ \E e \in DOMAIN exams, obj_in \in RosterUpdates : UpdateExam(e, obj_in)
    \/ \E u \in Users, e \in DOMAIN exams : StartOrResume(u, e)
    \/ \E u \in Users, a \in AttemptIds : GetAttemptQuestions(u, a)

RosterSpec == PaperInitMode("random_individual") /\ [][RosterNext]_vars

\* ------------------------------------ a manual paper and its attempts
\* save one of two well-formed lists, alone or together with a status, and
\* set the status
LockUpdates ==
    LET lists == {l \in ManualLists :
                    /\ l # <<>>
                    /\ \A k \in DOMAIN l : l[k].question_id \in QuestionIds
                                              /\ l[k].order_index = k - 1}
    IN
    {[status |-> st] : st \in {"draft", "published", "ongoing"}}
    \cup {[manual_questions |-> l] : l \in lists}
    \cup {[status |-> "draft", manual_questions |-> l] : l \in lists}

LockNext ==
    \/ Tick
    \/ \E e \in DOMAIN exams, obj_in \in LockUpdates : UpdateExam(e, obj_in)
    \/ \E u \in Users, e \in DOMAIN exams : StartOrResume(u, e)
    \/ \E u \in Users, a \in AttemptIds : GetAttemptQuestions(u, a)

LockSpec == PaperInitMode("manual") /\ [][LockNext]_vars

\* ------------------------------------------------------ the time window
\* ExamBase.check_times, run on the body of a create
check_times(start_time, end_time) == start_time < end_time

\* a new start_time, a new end_time, both, and a status
WindowUpdates ==
    {[start_time |-> t] : t \in 0..MaxTime}
    \cup {[end_time |-> t] : t \in 0..MaxTime}
    \cup {[start_time |-> t1, end_time |-> t2] : t1 \in 0..MaxTime, t2 \in 0..MaxTime}
    \cup {[status |-> st] : st \in {"draft", "published", "ongoing"}}

\* the exam as create stored it: a draft with a window check_times accepted
WindowInit ==
    /\ now = 0
    /\ \E start_time \in 0..MaxTime, end_time \in 0..MaxTime :
          /\ check_times(start_time, end_time)
          /\ exams = (1 :> Exam(start_time, end_time, 1, "manual", "draft"))
    /\ participants = {ExamParticipant(1, 1, NULL)}
    /\ user_groups = (1 :> {1}) @@ (2 :> {})
    /\ attempts = <<>>
    /\ answers = <<>>
    /\ exam_questions = <<>>
    /\ pre_generated_papers = <<>>
    /\ exam_attempt_papers = <<>>
    /\ resp = Response("init", 0, 0, NoAttempt, "ok", 0)
    /\ req = [i \in 1..NumReq |-> IdleReq]

WindowNext == \E e \in DOMAIN exams, obj_in \in WindowUpdates : UpdateExam(e, obj_in)

WindowSpec == WindowInit /\ [][WindowNext]_vars

\* ------------------------------------------------------------------ grading
\* ManualGradeInput bodies a grader sends
GradeInputs ==
    {[score |-> 0, is_correct |-> FALSE, comments |-> "wrong"],
     [score |-> 2, is_correct |-> TRUE, comments |-> "right"]}

\* the user id of the grader (holder of grade_exams)
Grader == 9

\* CRUDAnswer.apply_manual_grade
apply_manual_grade(ans, answer_id, grade_in, grader_id, t) ==
    IF answer_id \notin DOMAIN ans
    THEN [answers |-> ans, ret |-> 0]
    ELSE [answers |-> [ans EXCEPT ![answer_id].score = grade_in.score,
                                  ![answer_id].is_correct = grade_in.is_correct,
                                  ![answer_id].grading_comments = grade_in.comments,
                                  ![answer_id].grader_id = grader_id,
                                  ![answer_id].graded_at = t],
          ret |-> answer_id]

RECURSIVE SumScores(_, _)
\* select sum(score) of the rows in ids; the sum of no row is NULL
SumScores(ans, ids) ==
    IF ids = {} THEN NULL
    ELSE LET i == CHOOSE x \in ids : TRUE
             rest == SumScores(ans, ids \ {i})
         IN ans[i].score + (IF rest = NULL THEN 0 ELSE rest)

\* the sum query without the condition on attempt_id
ScoredRows_all_attempts(ans, attempt_id) ==
    {i \in DOMAIN ans : ans[i].score # NULL}

\* WHERE attempt_id = :attempt_id AND score IS NOT NULL
ScoredRows(ans, attempt_id) ==
    {i \in DOMAIN ans : ans[i].attempt_id = attempt_id /\ ans[i].score # NULL}

\* CRUDExamAttempt.calculate_and_save_final_score
calculate_and_save_final_score(atts, ans, attempt_id) ==
    IF get(atts, attempt_id) = NoAttempt
    THEN [attempts |-> atts, ret |-> NoAttempt]
    ELSE LET total_score_res == SumScores(ans, ScoredRows(ans, attempt_id))
             total_score == IF total_score_res = NULL THEN 0 ELSE total_score_res
         IN
         [attempts |-> [atts EXCEPT ![attempt_id].final_score = total_score,
                                    ![attempt_id].status = "graded"],
          ret |-> attempt_id]

AnswerIds == 1..(Len(answers) + 1)

\* PUT /grading/manual/answers/{answer_id}
SubmitManualGrade(answer_id, grade_in) ==
    LET r == apply_manual_grade(answers, answer_id, grade_in, Grader, now) IN
    /\ answers' = r.answers
    /\ resp' = Response("grade", Grader, 0, NoAttempt,
                        IF r.ret = 0 THEN "answer_not_found" ELSE "ok", r.ret)
    /\ UNCHANGED <<now, papers, exams, participants, user_groups, attempts, req>>

\* POST /grading/attempts/{attempt_id}/calculate-score
CalculateFinalScoreForAttempt(a) ==
    LET r == calculate_and_save_final_score(attempts, answers, a) IN
    /\ attempts' = r.attempts
    /\ resp' = Response("calculate_score", Grader, 0, a,
                        IF r.ret = NoAttempt THEN "attempt_not_found" ELSE "ok",
                        r.ret)
    /\ UNCHANGED <<now, papers, exams, participants, user_groups, answers, req>>

\* The question the students of the grading runs answer.
GradedQuestions == {1}

\* The store once the window of a published exam has opened, with users 1
\* and 2 assigned directly.
GradeInit ==
    /\ now = 1
    /\ exams = (1 :> Exam(1, 3, 1, "manual", "published"))
    /\ participants = {ExamParticipant(1, 1, NULL), ExamParticipant(1, 2, NULL)}
    /\ user_groups = (1 :> {1}) @@ (2 :> {})
    /\ attempts = <<>>
    /\ answers = <<>>
    /\ exam_questions = <<>>
    /\ pre_generated_papers = <<>>
    /\ exam_attempt_papers = <<>>
    /\ resp = Response("init", 0, 0, NoAttempt, "ok", 0)
    /\ req = [i \in 1..NumReq |-> IdleReq]

\* The answer the students of the grading runs give.
GradedValues == {"A"}

\* The endpoints of taking and grading an exam, each run to completion,
\* within one instant of the clock.
GradeNext ==
    \/ \E u \in Users, e \in ExamIds : StartOrResume(u, e)
    \/ \E u \in Users, a \in DOMAIN attempts, q \in GradedQuestions,
          val \in GradedValues : SaveAnswer(u, a, q, val)
    \/ \E u \in Users, a \in DOMAIN attempts : SubmitExamAttempt(u, a)
    \/ \E i \in AnswerIds, g \in GradeInputs : SubmitManualGrade(i, g)
    \/ \E a \in AttemptIds : CalculateFinalScoreForAttempt(a)

GradeSpec == GradeInit /\ [][GradeNext]_vars

\* Answers saved, graded and saved again while the attempts are in progress.
OverwriteNext ==
    \/ \E u \in Users, e \in ExamIds : StartOrResume(u, e)
    \/ \E u \in Users, a \in DOMAIN attempts, q \in GradedQuestions,
          val \in AnswerValues : SaveAnswer(u, a, q, val)
    \/ \E i \in AnswerIds, g \in GradeInputs : SubmitManualGrade(i, g)

OverwriteSpec == GradeInit /\ [][OverwriteNext]_vars

\* ------------------------------------------- saving against submitting
\* the requests that save answers; request SubmitRequest submits
SaveRequests == Requests \ {SubmitRequest}

\* save_answer up to get_valid_active_attempt: the select and the checks on
\* the loaded attempt; the handler keeps attempt.id and the request's answer
SaveValidate(i, u, a, q, val) ==
    /\ req[i].pc = "idle"
    /\ LET v == get_valid_active_attempt(attempts, a, u, now) IN
       req' = [req EXCEPT ![i] =
                 [question_id |-> q, user_answer |-> val]
                 @@ (IF v # "ok"
                     THEN [IdleReq EXCEPT !.op = "save", !.pc = "done", !.user = u,
                                          !.attempt = a, !.result = v]
                     ELSE [IdleReq EXCEPT !.op = "save", !.pc = "write", !.user = u,
                                          !.attempt = a, !.loaded = attempts[a]])]
    /\ resp' = Awaited
    /\ UNCHANGED <<now, db>>

\* CRUDAnswer.save_answer: the upsert statement and its commit
SaveWrite(i) ==
    /\ req[i].pc = "write"
    /\ LET a == req[i].attempt
           q == req[i].question_id
           val == req[i].user_answer
       IN
       /\ Len(save_answer(answers, a, q, val)) <= MaxAnswers
       /\ answers' = save_answer(answers, a, q, val)
       /\ \E saved \in AnswerRows(answers', a, q) :
            /\ resp' = [question_id |-> q, user_answer |-> val]
                       @@ Response("save", req[i].user, 0, a, "ok", saved)
            /\ req' = [req EXCEPT ![i].pc = "done", ![i].result = "ok",
                                  ![i].ret = saved]
    /\ UNCHANGED <<now, papers, exams, participants, user_groups, attempts>>

SaveRaceNext ==
    \/ \E u \in Users, e \in ExamIds : StartOrResume(u, e)
    \/ \E i \in SaveRequests, u \in Users, a \in DOMAIN attempts,
          q \in GradedQuestions, val \in AnswerValues : SaveValidate(i, u, a, q, val)
    \/ \E i \in SaveRequests : SaveWrite(i)
    \/ \E u \in Users, a \in DOMAIN attempts : SubmitLoad(u, a)
    \/ SubmitCommit
    \/ \E i \in Requests : Finish(i)

SaveRaceSpec == GradeInit /\ [][SaveRaceNext]_vars

\* --------------------------------------------- grading against saving
GradingFields == {"score", "is_correct", "grading_comments", "grader_id", "graded_at"}

\* the loaded answer object after the assignments of apply_manual_grade
Graded(answer, grade_in, grader_id, t) ==
    [answer EXCEPT !.score = grade_in.score,
                   !.is_correct = grade_in.is_correct,
                   !.grading_comments = grade_in.comments,
                   !.grader_id = grader_id,
                   !.graded_at = t]

\* the UPDATE the commit flushes for the answer object obj loaded as loaded:
\* the attributes whose value differs from the loaded one.  The grading
\* fields of a row are all unset or all set.
FlushAnswer(row, loaded, obj) ==
    [f \in DOMAIN row |->
        IF f \in GradingFields
           /\ (loaded.graded_at = NULL \/ obj[f] # loaded[f])
        THEN obj[f] ELSE row[f]]

\* One grading request is in flight at a time.
GradeRequest == 1

\* apply_manual_grade up to db.get(Answer, answer_id)
GradeLoad(answer_id, grade_in) ==
    /\ req[GradeRequest].pc = "idle"
    /\ req' = [req EXCEPT ![GradeRequest] =
                 [answer_id |-> answer_id, grade_in |-> grade_in,
                  answer |-> IF answer_id \in DOMAIN answers
                             THEN answers[answer_id] ELSE Answer(0, 0, "")]
                 @@ (IF answer_id \notin DOMAIN answers
                     THEN [IdleReq EXCEPT !.op = "grade", !.pc = "done",
                                          !.user = Grader,
                                          !.result = "answer_not_found"]
                     ELSE [IdleReq EXCEPT !.op = "grade", !.pc = "commit",
                                          !.user = Grader])]
    /\ resp' = Awaited
    /\ UNCHANGED <<now, db>>

\* apply_manual_grade: the assignments on the loaded answer, commit, refresh
GradeCommit ==
    /\ req[GradeRequest].pc = "commit"
    /\ LET id == req[GradeRequest].answer_id
           obj == Graded(req[GradeRequest].answer, req[GradeRequest].grade_in, Grader, now)
       IN
       /\ answers' = [answers EXCEPT ![id] = FlushAnswer(@, req[GradeRequest].answer, obj)]
       /\ req' = [req EXCEPT ![GradeRequest].pc = "done", ![GradeRequest].result = "ok", ![GradeRequest].ret = id]
       /\ resp' = Response("grade", Grader, 0, NoAttempt, "ok", id)
    /\ UNCHANGED <<now, papers, exams, participants, user_groups, attempts>>

GradeRaceNext ==
    \/ \E u \in Users, e \in ExamIds : StartOrResume(u, e)
    \/ \E u \in Users, a \in DOMAIN attempts, q \in GradedQuestions,
          val \in AnswerValues : SaveAnswer(u, a, q, val)
    \/ \E id \in AnswerIds, g \in GradeInputs : GradeLoad(id, g)
    \/ GradeCommit
    \/ Finish(GradeRequest)

GradeRaceSpec == GradeInit /\ [][GradeRaceNext]_vars

\* --------------------------------------------------------- statistics
RECURSIVE SumFinalScores(_, _)
\* the sum of final_score over the attempts ids
SumFinalScores(atts, ids) ==
    IF ids = {} THEN 0
    ELSE LET i == CHOOSE x \in ids : TRUE IN
         atts[i].final_score + SumFinalScores(atts, ids \ {i})

\* avg(final_score) over the attempts ids, as the fraction sum / count;
\* count 0 stands for the NULL of an average over no row
Avg(atts, ids) == [sum |-> SumFinalScores(atts, ids), count |-> Cardinality(ids)]

\* CRUDExam.get_participant_count
get_participant_count(parts, exam_id) ==
    Cardinality({p \in parts : p.exam_id = exam_id})

RECURSIVE SumQuestionScores(_)
\* sum(ExamQuestion.score) over rows, NULL over no row
SumQuestionScores(rows) ==
    IF rows = <<>> THEN NULL
    ELSE IF Len(rows) = 1 THEN Head(rows).score
    ELSE Head(rows).score + SumQuestionScores(Tail(rows))

\* the maximal score of the paper of a loaded exam: the shared paper's score
\* sum, or count * score_per_question over the rules the exam object carries
max_score_possible(s) ==
    IF s.exam.paper_generation_mode \in {"manual", "random_unified"}
    THEN SumQuestionScores(ExamRows(exam_questions, s.exam_id))
    ELSE IF s.random_rules_json = NoRules THEN NULL
    ELSE SumQuestionScores([k \in DOMAIN s.random_rules_json |->
            [score |-> s.random_rules_json[k].count
                       * s.random_rules_json[k].score_per_question]])

\* get_exam_statistics_admin
get_exam_statistics_admin(exam_id) ==
    IF exam_id \notin DOMAIN exams
    THEN [participant_count |-> 0, attempt_count |-> 0,
          average_score |-> Avg(attempts, {}), max_score_possible |-> NULL]
    ELSE LET rows == {a \in DOMAIN attempts :
                        /\ attempts[a].exam_id = exam_id
                        /\ attempts[a].status = "graded"
                        /\ attempts[a].final_score # NULL}
         IN
         [participant_count |-> get_participant_count(participants, exam_id),
          attempt_count |-> Cardinality(rows),
          average_score |-> Avg(attempts, rows),
          max_score_possible |-> max_score_possible(Session(exam_id))]

\* a call of get_exam_statistics_admin
ExamStatisticsCall(e) ==
    /\ resp' = [stats |-> get_exam_statistics_admin(e)]
               @@ Response("exam_statistics", Grader, e, NoAttempt, "ok", 0)
    /\ UNCHANGED <<now, db, req>>

\* The store once the window of a published exam has opened: users 1 and 2
\* assigned directly, user 1 assigned directly and through group 1, or user 2
\* directly and user 1 through group 1.
StatsInit ==
    /\ now = 1
    /\ exams = (1 :> Exam(1, 3, 1, "manual", "published"))
    /\ participants \in
          {{ExamParticipant(1, 1, NULL), ExamParticipant(1, 2, NULL)},
           {ExamParticipant(1, 1, NULL), ExamParticipant(1, NULL, 1)},
           {ExamParticipant(1, 2, NULL), ExamParticipant(1, NULL, 1)}}
    /\ user_groups = (1 :> {1}) @@ (2 :> {})
    /\ attempts = <<>>
    /\ answers = <<>>
    /\ exam_questions = <<>>
    /\ pre_generated_papers = <<>>
    /\ exam_attempt_papers = <<>>
    /\ resp = Response("init", 0, 0, NoAttempt, "ok", 0)
    /\ req = [i \in 1..NumReq |-> IdleReq]

StatsNext ==
    \/ \E u \in Users, e \in ExamIds : StartOrResume(u, e)
    \/ \E u \in Users, a \in DOMAIN attempts, q \in GradedQuestions,
          val \in GradedValues : SaveAnswer(u, a, q, val)
    \/ \E i \in AnswerIds, g \in GradeInputs : SubmitManualGrade(i, g)
    \/ \E a \in AttemptIds : CalculateFinalScoreForAttempt(a)
    \/ \E e \in RequestExamIds : ExamStatisticsCall(e)

StatsSpec == StatsInit /\ [][StatsNext]_vars

\* =============================================================== properties
NonTerminal == {"pending", "in_progress"}

ActiveAttempts(u, e) ==
    {i \in DOMAIN attempts :
        /\ attempts[i].user_id = u
        /\ attempts[i].exam_id = e
        /\ attempts[i].status \in NonTerminal}

Entitled(u, e) ==
    \/ \E p \in participants : p.exam_id = e /\ p.user_id = u
    \/ \E p \in participants, g \in Groups :
          p.exam_id = e /\ p.group_id = g /\ g \in user_groups[u]

\* the exam exists, is published or ongoing, its window is open at now and
\* the user is a participant
StartGuardsHold(u, e) ==
    /\ e \in DOMAIN exams
    /\ exams[e].status \in {"published", "ongoing"}
    /\ exams[e].start_time <= now
    /\ now < exams[e].end_time
    /\ Entitled(u, e)

\* C1: every (user, exam) pair has at most one attempt row in pending or
\* in_progress in every reachable state, and a start request (one that gets
\* to create_or_get_pending and start_attempt) for a pair that has such a row
\* returns that row and creates none.
C1_SingleActiveAttempt ==
    /\ [](\A u \in Users, e \in ExamIds : Cardinality(ActiveAttempts(u, e)) <= 1)
    /\ [][(/\ resp'.op = "start"
           /\ StartGuardsHold(resp'.user, resp'.exam)
           /\ ActiveAttempts(resp'.user, resp'.exam) # {})
          => /\ resp'.result = "ok"
             /\ resp'.ret \in ActiveAttempts(resp'.user, resp'.exam)
             /\ Len(attempts') = Len(attempts)]_vars

\* two users hold an attempt each, and the last request resumed an attempt
\* that was started at an earlier time
C1_Witness ==
    /\ resp.op = "start"
    /\ resp.result = "ok"
    /\ Len(attempts) = 2
    /\ attempts[resp.ret].status = "in_progress"
    /\ attempts[resp.ret].start_time < now

\* C5: a start request changes an attempt row or the exam status only if,
\* at the time of the request, the exam is published or ongoing, its window
\* is open and the user is a participant; a request that fails a guard is
\* rejected and leaves the attempts and the exams as they were.
C5_StartGuarded ==
    [][(resp'.op = "start" /\ ~StartGuardsHold(resp'.user, resp'.exam))
       => /\ resp'.result # "ok"
          /\ attempts' = attempts
          /\ exams' = exams]_vars

\* a participant's start request arrives after the window closed, while
\* another attempt exists, and is rejected
C5_Witness ==
    /\ resp.op = "start"
    /\ resp.result = "ended"
    /\ Entitled(resp.user, resp.exam)
    /\ exams[resp.exam].status \in {"published", "ongoing"}
    /\ attempts # <<>>

\* C8: a submit by the owner moves an in_progress attempt to submitted with
\* submit_time = now, whether or not now is past calculated_end_time, and is
\* rejected without a change on any other status.
C8_LateSubmitAccepted ==
    [][(/\ resp'.op = "submit"
        /\ resp'.attempt \in DOMAIN attempts
        /\ attempts[resp'.attempt].user_id = resp'.user)
       => IF attempts[resp'.attempt].status = "in_progress"
          THEN /\ resp'.result = "ok"
               /\ attempts'[resp'.attempt].status = "submitted"
               /\ attempts'[resp'.attempt].submit_time = now
          ELSE /\ resp'.result # "ok"
               /\ attempts' = attempts]_vars

GuardErrors ==
    {"exam_not_found", "not_started", "ended", "bad_status", "not_participant"}

\* C2: two start requests for the same (user, exam) that both passed the
\* endpoint's guards and have both returned, in whatever order their storage
\* steps ran, both succeeded with the same attempt, and that attempt is the
\* one row of the pair.
C2_StartRaceOneRow ==
    \A i \in Requests, j \in Requests :
        (/\ i # j
         /\ req[i].op = "start" /\ req[i].pc = "done"
         /\ req[j].op = "start" /\ req[j].pc = "done"
         /\ req[i].user = req[j].user /\ req[i].exam = req[j].exam
         /\ req[i].result \notin GuardErrors
         /\ req[j].result \notin GuardErrors)
        => /\ req[i].result = "ok" /\ req[j].result = "ok"
           /\ req[i].ret = req[j].ret
           /\ get_by_user_exam(attempts, req[i].user, req[i].exam) = {req[i].ret}

\* C3: create_or_get_pending raises the already-completed error, with no
\* row created or changed, when the pair's attempt is submitted, grading,
\* graded or aborted; it returns the pair's attempt when that is pending or
\* in_progress, and a new pending row when the pair had none.
C3_CompletedRejected ==
    [][resp'.op = "create_or_get_pending"
       => LET existing == get_by_user_exam(attempts, resp'.user, resp'.exam) IN
          IF existing = {}
          THEN /\ resp'.result = "ok"
               /\ attempts' = Append(attempts, ExamAttempt(resp'.exam, resp'.user))
               /\ resp'.ret = Len(attempts')
          ELSE \A i \in existing :
                 IF attempts[i].status \in {"submitted", "grading", "graded", "aborted"}
                 THEN resp'.result = "already_completed" /\ attempts' = attempts
                 ELSE resp'.result = "ok" /\ resp'.ret = i /\ attempts' = attempts]_vars

\* C4: start_attempt on an in_progress attempt returns it and changes no
\* field of any attempt (so the deadline set by the first start stays); on a
\* pending attempt it sets start_time = now, calculated_end_time = now +
\* duration_minutes, last_heartbeat = now and status = in_progress; on every
\* other status it raises and changes nothing.  A start request that
\* resumes an in_progress attempt changes no attempt either.
C4_StartIdempotent ==
    [][/\ resp'.op = "start_attempt"
          => LET a == resp'.attempt
                 d == exams[attempts[a].exam_id].duration_minutes
             IN
             CASE attempts[a].status = "in_progress" ->
                      resp'.result = "ok" /\ resp'.ret = a /\ attempts' = attempts
               [] attempts[a].status = "pending" ->
                      /\ resp'.result = "ok"
                      /\ attempts' = [attempts EXCEPT
                                         ![a].status = "in_progress",
                                         ![a].start_time = now,
                                         ![a].calculated_end_time = now + d,
                                         ![a].last_heartbeat = now]
               [] OTHER ->
                      resp'.result = "cannot_start" /\ attempts' = attempts
       /\ (/\ resp'.op = "start"
           /\ StartGuardsHold(resp'.user, resp'.exam)
           /\ \E i \in DOMAIN attempts :
                 /\ attempts[i].user_id = resp'.user
                 /\ attempts[i].exam_id = resp'.exam
                 /\ attempts[i].status = "in_progress")
          => resp'.result = "ok" /\ attempts' = attempts]_vars

\* start_attempt returned an in_progress attempt whose clock was started at
\* an earlier time
C4_Witness ==
    /\ resp.op = "start_attempt"
    /\ resp.result = "ok"
    /\ attempts[resp.attempt].status = "in_progress"
    /\ attempts[resp.attempt].start_time # NULL
    /\ attempts[resp.attempt].start_time < now
    /\ attempts[resp.attempt].calculated_end_time
          = attempts[resp.attempt].start_time + 1

C7_HeartbeatSubmitRace ==
    /\ [][resp'.op = "heartbeat"
          => LET a == resp'.attempt IN
             IF a \in DOMAIN attempts /\ attempts[a].status = "in_progress"
             THEN /\ resp'.result = "ok"
                  /\ attempts' = [attempts EXCEPT ![a].last_heartbeat = now]
             ELSE /\ resp'.result = "active_attempt_not_found"
                  /\ attempts' = attempts]_vars
    /\ []((/\ req[SubmitRequest].op = "submit"
           /\ req[SubmitRequest].pc = "done"
           /\ req[SubmitRequest].result = "ok")
          => LET a == req[SubmitRequest].attempt IN
             /\ attempts[a].status = "submitted"
             /\ attempts[a].submit_time # NULL
             /\ attempts[a].submit_time = req[SubmitRequest].loaded.submit_time)
    /\ [][\A a \in DOMAIN attempts :
             attempts[a].status = "submitted"
             => /\ attempts'[a].status = "submitted"
                /\ attempts'[a].submit_time = attempts[a].submit_time]_vars

\* a heartbeat succeeded between the submit's load and its commit: the
\* stored row has moved on from the object the submit holds
C7_Witness ==
    /\ req[SubmitRequest].pc = "loaded"
    /\ resp.op = "heartbeat"
    /\ resp.result = "ok"
    /\ resp.attempt = req[SubmitRequest].attempt
    /\ attempts[resp.attempt].last_heartbeat
          # req[SubmitRequest].loaded.last_heartbeat

Overdue(a) ==
    /\ a \in DOMAIN attempts
    /\ attempts[a].calculated_end_time # NULL
    /\ now > attempts[a].calculated_end_time

\* C9 as stated: every questions or save-answer request on an attempt past
\* its calculated_end_time is rejected with the expired error and writes
\* nothing.
C9_ExpiredAlways ==
    [][(resp'.op \in {"questions", "save"} /\ Overdue(resp'.attempt))
       => /\ resp'.result = "expired"
          /\ resp'.ret = 0
          /\ answers' = answers
          /\ attempts' = attempts]_vars

\* C9, amended: every questions or save-answer request on an attempt past
\* its calculated_end_time is rejected, returns nothing and writes no answer
\* row and no attempt field; the error is the expired one when the attempt
\* is the requester's own and in_progress.
C9_ExpiredRejected ==
    [][(resp'.op \in {"questions", "save"} /\ Overdue(resp'.attempt))
       => /\ resp'.result # "ok"
          /\ resp'.ret = 0
          /\ answers' = answers
          /\ attempts' = attempts
          /\ (/\ attempts[resp'.attempt].user_id = resp'.user
              /\ attempts[resp'.attempt].status = "in_progress")
             => resp'.result = "expired"]_vars

\* the owner's save on an overdue in_progress attempt that already holds an
\* answer was rejected as expired
C9_Witness ==
    /\ resp.op = "save"
    /\ resp.result = "expired"
    /\ Overdue(resp.attempt)
    /\ answers # <<>>

\* C10: the answer store holds at most one row per (attempt_id,
\* question_id).
C10_OneAnswerRow ==
    \A a \in DOMAIN attempts, q \in Questions :
        Cardinality(AnswerRows(answers, a, q)) <= 1

\* C11: when save_answer is called for an (attempt, question) that already
\* has an answer row, graded or not, the row it reads back carries the new
\* user_answer and has score, is_correct, grader_id, grading_comments and
\* graded_at unset.
C11_OverwriteResetsGrade ==
    [][(/\ resp'.op = "save"
        /\ resp'.result = "ok"
        /\ AnswerRows(answers, resp'.attempt, resp'.question_id) # {})
       => LET row == answers'[resp'.ret] IN
          /\ row.user_answer = resp'.user_answer
          /\ row.score = NULL
          /\ row.is_correct = NULL
          /\ row.grader_id = NULL
          /\ row.grading_comments = NULL
          /\ row.graded_at = NULL]_vars

RECURSIVE ScoreTotal(_, _)
\* the scores of the first n answer rows that belong to attempt a, added up
ScoreTotal(n, a) ==
    IF n = 0 THEN 0
    ELSE ScoreTotal(n - 1, a)
         + (IF answers[n].attempt_id = a /\ answers[n].score # NULL
            THEN answers[n].score ELSE 0)

\* C12: calculate_and_save_final_score on an existing attempt sets
\* final_score to the sum of the non-null scores of that attempt's answers
\* (0 when none is scored) and status to graded, changes nothing else and
\* raises no error when some answers are unscored; on a missing attempt it
\* returns nothing and changes nothing.
C12_FinalScoreIsSum ==
    [][resp'.op = "calculate_score"
       => LET a == resp'.attempt IN
          /\ answers' = answers
          /\ IF a \in DOMAIN attempts
             THEN /\ resp'.result = "ok"
                  /\ resp'.ret = a
                  /\ attempts' = [attempts EXCEPT
                                     ![a].final_score = ScoreTotal(Len(answers), a),
                                     ![a].status = "graded"]
             ELSE /\ resp'.result = "attempt_not_found"
                  /\ attempts' = attempts]_vars

\* the score of an attempt was calculated as 2 from its one scored answer
\* while another attempt holds a scored answer too
C12_Witness ==
    /\ resp.op = "calculate_score"
    /\ resp.result = "ok"
    /\ attempts[resp.attempt].final_score = 2
    /\ \E i \in DOMAIN answers, j \in DOMAIN answers :
          /\ answers[i].attempt_id = resp.attempt
          /\ answers[i].score = 2
          /\ answers[j].attempt_id # resp.attempt
          /\ answers[j].score = 2

LifecycleArcs ==
    {<<"pending", "in_progress">>, <<"in_progress", "submitted">>,
     <<"submitted", "graded">>, <<"grading", "graded">>}

\* C13: every change of an attempt's status follows an arc of the
\* lifecycle: pending to in_progress, in_progress to submitted, submitted or
\* grading to graded.
C13_StatusArcs ==
    [][\A a \in DOMAIN attempts :
          attempts'[a].status # attempts[a].status
          => <<attempts[a].status, attempts'[a].status>> \in LifecycleArcs]_vars

\* order_index is exactly 0..N-1 and no question_id repeats in the rows
WellFormedPaper(rows) ==
    /\ {rows[k].order_index : k \in DOMAIN rows} = 0..(Len(rows) - 1)
    /\ Cardinality({rows[k].question_id : k \in DOMAIN rows}) = Len(rows)

PublishOfDraft(e) ==
    /\ resp'.op = "update_exam"
    /\ resp'.exam = e
    /\ e \in DOMAIN exams
    /\ exams[e].status = "draft"
    /\ IsSet(resp'.obj_in, "status")
    /\ resp'.obj_in.status = "published"

\* no rule of the list matches a question of the bank
MatchNothing(rules) == \A k \in DOMAIN rules : RulePool(rules[k], {}) = {}

\* the publish request of the step cannot get a paper: a random mode without
\* rules, rules that match no question for the one shared paper, or for the
\* papers of the participants the exam has
GenerationFails(e) ==
    /\ exams[e].paper_generation_mode \in {"random_unified", "random_individual"}
    /\ \/ ~IsSet(resp'.obj_in, "random_rules")
       \/ /\ MatchNothing(resp'.obj_in.random_rules)
          /\ \/ exams[e].paper_generation_mode = "random_unified"
             \/ /\ ~IsSet(resp'.obj_in, "participants")
                /\ resolve_participant_user_ids(participants, e) # {}

Matching(rule) ==
    {q \in DOMAIN QuestionCatalog :
        /\ QuestionCatalog[q].chapter_id \in rule.chapter_ids
        /\ \/ rule.question_type = NoQuestionType
           \/ QuestionCatalog[q].question_type = rule.question_type}

RECURSIVE MatchesRules(_, _, _)
\* paper is what the rules ask for, given the questions selected before: the
\* first rule takes min(count, size of its pool) distinct questions of its
\* pool at its score, the other rules take the rest of the paper
MatchesRules(rules, paper, selected) ==
    IF rules = <<>> THEN paper = <<>>
    ELSE LET rule == Head(rules)
             pool == Matching(rule) \ selected
             n == Min(rule.count, Cardinality(pool))
             taken == {paper[i].question_id : i \in 1..Min(n, Len(paper))}
         IN
         /\ Len(paper) >= n
         /\ Cardinality(taken) = n
         /\ taken \subseteq pool
         /\ \A i \in 1..n : paper[i].score = rule.score_per_question
         /\ MatchesRules(Tail(rules), SubSeq(paper, n + 1, Len(paper)),
                         selected \cup taken)

\* the rows of the paper of user u for exam e
UserPaper(rows, e, u) == SelectSeq(rows, LAMBDA r : r.exam_id = e /\ r.user_id = u)

\* C16: a publish request with a rule list stores papers in which each rule,
\* in order, selected exactly min(count, size of its pool) questions, its pool
\* being the questions of its chapters and type minus those selected before;
\* it succeeds with a shortfall when at least one question was selected and
\* fails only when no rule matches a question.
C16_RulesSelectMin ==
    [][\A e \in ExamIds :
          (PublishOfDraft(e) /\ IsSet(resp'.obj_in, "random_rules"))
          => LET rules == resp'.obj_in.random_rules
                 users == IF IsSet(resp'.obj_in, "participants") THEN {}
                          ELSE resolve_participant_user_ids(participants, e)
             IN
             /\ exams[e].paper_generation_mode = "random_unified"
                => IF \A k \in DOMAIN rules : Matching(rules[k]) = {}
                   THEN resp'.result = "generation_failed"
                   ELSE /\ resp'.result = "ok"
                        /\ MatchesRules(rules, ExamRows(exam_questions', e), {})
             /\ (exams[e].paper_generation_mode = "random_individual" /\ users # {})
                => IF \A k \in DOMAIN rules : Matching(rules[k]) = {}
                   THEN resp'.result = "generation_failed"
                   ELSE /\ resp'.result = "ok"
                        /\ \A u \in users :
                             MatchesRules(rules, UserPaper(pre_generated_papers', e, u), {})
      ]_vars

\* count 3 against the two questions of chapter 1 at score 2: a published
\* paper of two questions with score sum 4
C16_Witness ==
    /\ resp.op = "update_exam"
    /\ resp.result = "ok"
    /\ IsSet(resp.obj_in, "random_rules")
    /\ resp.obj_in.random_rules = <<RandomQuestionParameter({1}, NoQuestionType, 3, 2)>>
    /\ exams[1].paper_generation_mode = "random_unified"
    /\ exams[1].status = "published"
    /\ Len(exam_questions) = 2
    /\ exam_questions[1].score + exam_questions[2].score = 4

\* C17: publishing a draft manual exam that has at least one caller-supplied
\* question succeeds: the exam becomes published and its paper is exactly
\* the rows the caller saved, none removed or altered by the publish step.
C17_ManualPublishSucceeds ==
    [][\A e \in ExamIds :
          (/\ PublishOfDraft(e)
           /\ exams[e].paper_generation_mode = "manual"
           /\ ~IsSet(resp'.obj_in, "manual_questions")
           /\ ExamRows(exam_questions, e) # <<>>)
          => /\ resp'.result = "ok"
             /\ exams'[e].status = "published"
             /\ ExamRows(exam_questions', e) = ExamRows(exam_questions, e)]_vars

\* every question_id has a row and order_index is exactly 0..N-1
ValidManualList(l) ==
    /\ \A k \in DOMAIN l : l[k].question_id \in DOMAIN QuestionCatalog
    /\ {l[k].order_index : k \in DOMAIN l} = 0..(Len(l) - 1)
    /\ \A i \in DOMAIN l, j \in DOMAIN l : i # j => l[i].order_index # l[j].order_index

\* C18: saving a manual question list on a draft exam is rejected, before any
\* paper row of the exam is deleted or replaced, whenever a question_id has no
\* row or the order_index values are not unique and contiguous from 0.
C18_InvalidListRejected ==
    [][\A e \in ExamIds :
          (/\ resp'.op = "update_exam"
           /\ resp'.exam = e
           /\ exams[e].status = "draft"
           /\ exams[e].paper_generation_mode = "manual"
           /\ IsSet(resp'.obj_in, "manual_questions")
           /\ ~ValidManualList(resp'.obj_in.manual_questions))
          => /\ resp'.result # "ok"
             /\ UNCHANGED db]_vars

RECURSIVE PaperScore(_)
\* the score sum of the rows of a paper
PaperScore(rows) ==
    IF rows = <<>> THEN 0 ELSE Head(rows).score + PaperScore(Tail(rows))

\* new is one paper of the rules with the question count and score sum of old
SameSizeAndScore(rules, old, new) ==
    /\ MatchesRules(rules, new, {})
    /\ Len(new) = Len(old)
    /\ PaperScore(new) = PaperScore(old)

\* C19: generating again for an exam that holds a paper of the same rules,
\* with the same participants and question bank, leaves exactly one paper per
\* scope, with the question count and the score sum of the paper it replaced.
C19_RegenerationSameSize ==
    [][\A e \in ExamIds :
          (PublishOfDraft(e) /\ IsSet(resp'.obj_in, "random_rules")
                             /\ ~IsSet(resp'.obj_in, "participants"))
          => LET rules == resp'.obj_in.random_rules
                 old == ExamRows(exam_questions, e)
                 users == resolve_participant_user_ids(participants, e)
             IN
             /\ (/\ exams[e].paper_generation_mode = "random_unified"
                 /\ old # <<>>
                 /\ MatchesRules(rules, old, {}))
                => /\ resp'.result = "ok"
                   /\ SameSizeAndScore(rules, old, ExamRows(exam_questions', e))
             /\ exams[e].paper_generation_mode = "random_individual"
                => \A u \in users :
                     (/\ UserPaper(pre_generated_papers, e, u) # <<>>
                      /\ MatchesRules(rules, UserPaper(pre_generated_papers, e, u), {}))
                     => /\ resp'.result = "ok"
                        /\ SameSizeAndScore(rules, UserPaper(pre_generated_papers, e, u),
                                            UserPaper(pre_generated_papers', e, u))]_vars

\* the users an assignment resolves to: those named and the group members
AssignedUsers(assignment) ==
    assignment.user_ids
    \cup {u \in DOMAIN user_groups : user_groups[u] \cap assignment.group_ids # {}}

\* C20: a participant update on a published random_individual exam leaves
\* every added user (new resolved set minus old) with a freshly generated
\* paper, every removed user (old minus new) who has no attempt with no paper
\* rows, and the paper rows of every user in both sets unchanged.
C20_ParticipantDelta ==
    [][\A e \in ExamIds :
          (/\ resp'.op = "update_exam"
           /\ resp'.exam = e
           /\ exams[e].status = "published"
           /\ exams[e].paper_generation_mode = "random_individual"
           /\ DOMAIN resp'.obj_in = {"participants"})
          => LET old_set == resolve_participant_user_ids(participants, e)
                 new_set == AssignedUsers(resp'.obj_in.participants)
             IN
             /\ \A u \in new_set \ old_set :
                  /\ UserPaper(pre_generated_papers', e, u) # <<>>
                  /\ WellFormedPaper(UserPaper(pre_generated_papers', e, u))
             /\ \A u \in old_set \ new_set :
                  get_by_user_exam(attempts, u, e) = {}
                  => UserPaper(pre_generated_papers', e, u) = <<>>
             /\ \A u \in old_set \cap new_set :
                  UserPaper(pre_generated_papers', e, u)
                  = UserPaper(pre_generated_papers, e, u)]_vars

\* statuses of an attempt that was started
StartedStatuses == {"in_progress", "submitted", "grading", "graded"}

\* C21: a participant update on a published random_individual exam never
\* deletes the individual paper rows of a user who has an attempt that is
\* in_progress or later.
C21_StartedPaperKept ==
    [][\A e \in ExamIds, u \in Users :
          (/\ resp'.op = "update_exam"
           /\ resp'.exam = e
           /\ exams[e].status = "published"
           /\ exams[e].paper_generation_mode = "random_individual"
           /\ IsSet(resp'.obj_in, "participants")
           /\ \E a \in get_by_user_exam(attempts, u, e) :
                 attempts[a].status \in StartedStatuses)
          => UserPaper(pre_generated_papers', e, u)
             = UserPaper(pre_generated_papers, e, u)]_vars

\* the stored rows as the tuples a reader of the paper gets
PaperView(rows) ==
    [k \in DOMAIN rows |->
        [question_id |-> rows[k].question_id, order_index |-> rows[k].order_index,
         score |-> rows[k].score]]

\* the tuples are in ascending order_index
Ascending(paper) ==
    \A i \in DOMAIN paper, j \in DOMAIN paper :
        i < j => paper[i].order_index <= paper[j].order_index

\* the set of tuples of a sequence
Range(paper) == {paper[k] : k \in DOMAIN paper}

\* C22: the questions returned for an attempt are, ordered by order_index,
\* exactly the paper stored for it: the exam's exam_questions rows for a
\* manual or random_unified exam, the pre_generated_papers rows of the
\* attempt's user for a random_individual exam (non-empty when that user
\* has a generated paper).
C22_PaperReturned ==
    [][(resp'.op = "questions" /\ resp'.result = "ok")
       => LET a == resp'.attempt
              e == attempts[a].exam_id
              u == attempts[a].user_id
              stored == IF exams[e].paper_generation_mode = "random_individual"
                        THEN UserPaper(pre_generated_papers, e, u)
                        ELSE ExamRows(exam_questions, e)
          IN
          /\ Ascending(resp'.questions)
          /\ Len(resp'.questions) = Len(stored)
          /\ Range(resp'.questions) = Range(PaperView(stored))]_vars

\* C23: once an exam's status has left draft (as it has for every exam that
\* has an attempt: only a published or ongoing exam can be started), no
\* update call changes its paper_generation_mode or its question list; an
\* update that tries to is rejected with no change.
C23_PaperFrozenAfterDraft ==
    [][\A e \in ExamIds :
          (/\ resp'.op = "update_exam"
           /\ resp'.exam = e
           /\ \E a \in DOMAIN attempts : attempts[a].exam_id = e)
          => /\ exams'[e].paper_generation_mode = exams[e].paper_generation_mode
             /\ ExamRows(exam_questions', e) = ExamRows(exam_questions, e)
             /\ IsSet(resp'.obj_in, "manual_questions") => resp'.result # "ok"]_vars

\* C24: every stored exam has start_time < end_time; an update whose
\* resulting window has start_time >= end_time is rejected before any
\* mutation.
C24_WindowOrdered ==
    \A e \in DOMAIN exams : exams[e].start_time < exams[e].end_time

RECURSIVE OrderedByRule(_, _, _)
\* the rows the first rule selected (as many as its pool allows, up to its
\* count) carry the rule's score and an order_index below that of every row
\* of a later rule, and so on for the rules after it
OrderedByRule(rules, paper, selected) ==
    IF rules = <<>> THEN TRUE
    ELSE LET rule == Head(rules)
             n == Min(Min(rule.count, Cardinality(Matching(rule) \ selected)),
                      Len(paper))
             rest == SubSeq(paper, n + 1, Len(paper))
         IN
         /\ \A i \in 1..n : paper[i].score = rule.score_per_question
         /\ \A i \in 1..n, j \in DOMAIN rest :
               paper[i].order_index < rest[j].order_index
         /\ OrderedByRule(Tail(rules), rest,
                          selected \cup {paper[i].question_id : i \in 1..n})

\* C25: in a generated paper every question selected by an earlier rule has a
\* smaller order_index than every question selected by a later rule, and
\* each question's paper score is the score_per_question of the rule that
\* selected it, whichever questions were drawn.
C25_RuleOrderAndScore ==
    [][\A e \in ExamIds :
          (PublishOfDraft(e) /\ IsSet(resp'.obj_in, "random_rules")
                             /\ resp'.result = "ok")
          => LET rules == resp'.obj_in.random_rules IN
             /\ exams[e].paper_generation_mode = "random_unified"
                => OrderedByRule(rules, ExamRows(exam_questions', e), {})
             /\ exams[e].paper_generation_mode = "random_individual"
                => \A u \in Users :
                     OrderedByRule(rules, UserPaper(pre_generated_papers', e, u), {})
      ]_vars

\* a published paper of two rules: question 3 at score 1 first, then the two
\* questions of chapter 1 at score 2
C25_Witness ==
    /\ resp.op = "update_exam"
    /\ resp.result = "ok"
    /\ IsSet(resp.obj_in, "random_rules")
    /\ Len(resp.obj_in.random_rules) = 2
    /\ exams[1].status = "published"
    /\ Len(exam_questions) = 3
    /\ exam_questions[1].question_id = 3
    /\ exam_questions[1].score = 1
    /\ exam_questions[1].order_index = 0
    /\ exam_questions[3].score = 2
    /\ exam_questions[3].order_index = 2

\* the graded attempts of exam e
GradedAttempts(e) ==
    {a \in DOMAIN attempts : attempts[a].exam_id = e /\ attempts[a].status = "graded"}

\* C26: the statistics of an exam report participant_count as the number of
\* distinct users assigned directly or through an assigned group, and
\* attempt_count and average_score over exactly the graded attempts of the
\* exam.
C26_StatisticsCounts ==
    [][\A e \in ExamIds :
          (resp'.op = "exam_statistics" /\ resp'.exam = e)
          => /\ resp'.stats.participant_count
                = Cardinality(resolve_participant_user_ids(participants, e))
             /\ resp'.stats.attempt_count = Cardinality(GradedAttempts(e))
             /\ resp'.stats.average_score.count = Cardinality(GradedAttempts(e))
             /\ resp'.stats.average_score.sum
                = SumFinalScores(attempts, GradedAttempts(e))]_vars

\* the answer rows of attempt a
AnswersOf(ans, a) == SelectSeq(ans, LAMBDA r : r.attempt_id = a)

\* C27: whatever the interleaving of save-answer requests with a submit of
\* the same attempt, no answer row of an attempt is inserted or overwritten
\* once the attempt's stored status is no longer in_progress.
C27_NoSaveAfterSubmit ==
    [][\A a \in DOMAIN attempts :
          attempts[a].status # "in_progress"
          => AnswersOf(answers', a) = AnswersOf(answers, a)]_vars

\* the answer row carries no grade
Ungraded(row) == row.score = NULL /\ row.graded_at = NULL

C29_EveryParticipantHasPaper ==
    \A e \in DOMAIN exams :
       (/\ exams[e].paper_generation_mode = "random_individual"
        /\ exams[e].status \in {"published", "ongoing"})
       => \A u \in resolve_participant_user_ids(participants, e) :
             UserPaper(pre_generated_papers, e, u) # <<>>

RECURSIVE ScoreSum(_)
\* the sum of the scores the rows carry
ScoreSum(rows) ==
    IF rows = <<>> THEN 0
    ELSE (IF Head(rows).score = NULL THEN 0 ELSE Head(rows).score)
         + ScoreSum(Tail(rows))

\* C30: a graded attempt has a final_score, and it is the sum of the scores
\* its answers carry now; grading or saving an answer after the calculation
\* leaves no graded attempt whose final_score differs from that sum.
C30_FinalScoreIsSum ==
    \A a \in DOMAIN attempts :
       attempts[a].status = "graded"
       => /\ attempts[a].final_score # NULL
          /\ attempts[a].final_score = ScoreSum(AnswersOf(answers, a))
====
